---- MODULE Spec2Model ----
(***************************************************************************)
(* Elevator dispatch simulation: the Building tick (Building.update), the  *)
(* per-elevator state machine (Elevator.update), passenger lifecycle       *)
(* (Person), the dispatcher (ElevatorSystem) and the arrival generator     *)
(* (Simulation.update).                                                    *)
(*                                                                         *)
(* Time is p.millis(); one call of Simulation.update sees one value of it  *)
(* (currentTime).  Positions are render.y relative to the ground-floor     *)
(* coordinate p.height - 40, so floor f lies at -f * FloorHeight.          *)
(* Durations are kept in milliseconds (the code divides by 1000 only for   *)
(* display).                                                               *)
(***************************************************************************)
EXTENDS Integers, Sequences, FiniteSets, TLC

\* ---- model bounds (settings and environment choices) ----
NumFloors == 3
NumLanes == 2
Capacity == 1
Speed == 8
FloorHeight == 12
MaxPeople == 2
MaxTicks == 10
MaxGaps == 1
MaxSettingsChanges == 1
HighFlowRate == 20
LowFlowRate == 1
FrameMs == 500
GapMs == 31000
RandomSteps == 4
SwapTicks == 5
SnapshotTicks == 4
MaxMutations == 2
MaxCalls == 2
ReproTicks == 6
MaxScanFloors == 6
RepairTicks == 7
RepairGaps == 2
StatsFrames == 27
MaxBoardings == 2
ResetTicks == 8
ResetGaps == 1
MaxResets == 1
MaxReads == 2
ReadyTicks == 6
QuietTicks == 9
MaxStops == 3
MaxElevators == 3
MaxPassengers == 3
NumSeeds == 3
MaxRegistrations == 1
MaxSwaps == 2
MaxAsked == 3
AlgorithmVersions == 2
MaxServed == 2
MaxAvgWait == 90000
StairsStep == 10
MaxStairsSteps == 4
MaxWaiting == 250
MaxFloorsSetting == 6
MaxLanesSetting == 4

\* ---- program constants ----
LoadingDuration == 1000
StuckIdle == 20000
StuckMoving == 5000
StuckLoading == 3000
StuckRepair == 5000
StuckCheckInterval == 1000
HistorySize == 5
PositionCheckInterval == 500
PositionGrace == 1000
RepairGrace == 1000
LogicGraceShort == 500
LogicGraceLong == 2000
SnapDistance == 5
WarmupPeriod == 30
statsUpdateInterval == 50
EfficiencyCalcInterval == 1000
GiveUpMin == 30000
GiveUpMax == 90000
FramesPerFlowUnit == 60
MaxSpeedSetting == 10
SeedModulus == 2147483647
SeedMultiplier == 16807
WarmUpDraws == 10
MaxCapacitySetting == 15

Floors == 0 .. (NumFloors - 1)
Lanes == 0 .. (NumLanes - 1)
\* p.random(GiveUpMin, GiveUpMax) draws from [GiveUpMin, GiveUpMax); the model
\* draws the least patient passenger
GiveUpThresholds == {t \in {GiveUpMin} : t < GiveUpMax}
FlowRates == {LowFlowRate, HighFlowRate}

Abs(x) == IF x < 0 THEN -x ELSE x

\* ---- values an algorithm call can produce ----
Num(v) == [kind |-> "num", val |-> v]
NaNValue == [kind |-> "nan", val |-> 0]
Throws == [kind |-> "throw", val |-> 0]
\* typeof r === 'number' && !isNaN(r) && r >= 0 && r < n
IsValidNumber(r, n) == r.kind = "num" /\ r.val >= 0 /\ r.val < n

RawAssignOutputs == {Num(i) : i \in Lanes} \cup {Num(NumLanes), Throws}

\* TranspiledAlgorithm.assignElevatorToPerson, the wrapper around an
\* algorithm written in the editor: an invalid result or an exception
\* becomes elevator 0
TranspiledAssign(raw) == IF IsValidNumber(raw, NumLanes) THEN raw ELSE Num(0)

\* the active algorithm is one registered as it is, or a wrapped one
AssignOutputs == RawAssignOutputs \cup {TranspiledAssign(raw) : raw \in RawAssignOutputs}
DecideOutputs == {Num(f) : f \in Floors} \cup {Num(-1), Num(NumFloors), NaNValue, Throws}


\* ---- Elevator ----
FloorY(f) == 0 - f * FloorHeight

StuckThreshold(s) ==
  CASE s = "IDLE" -> StuckIdle
    [] s = "MOVING_UP" -> StuckMoving
    [] s = "MOVING_DOWN" -> StuckMoving
    [] s = "LOADING" -> StuckLoading
    [] OTHER -> StuckRepair

NewElevator(t) ==
  [currentFloor |-> 0, targetFloor |-> 0, state |-> "IDLE",
   people |-> << >>, floorsToVisit |-> {},
   y |-> FloorY(0), stateStartTime |-> t, stuckWarning |-> FALSE,
   repairStartTime |-> 0, lastPositionY |-> FloorY(0),
   positionCheckTimer |-> 0, stuckCheckTime |-> t,
   positionHistory |-> [i \in 1 .. HistorySize |-> FloorY(0)],
   stateHistory |-> [i \in 1 .. HistorySize |-> "IDLE"]]

\* the direction of the target floor, whatever the state
currentDirectionOfTarget(el) ==
  IF el.targetFloor > el.currentFloor \/ el.floorsToVisit # {} THEN 1
  ELSE IF el.targetFloor < el.currentFloor THEN -1 ELSE 0

currentDirection(el) ==
  IF el.state = "MOVING_UP" THEN 1
  ELSE IF el.state = "MOVING_DOWN" THEN -1 ELSE 0

\* ---- Person ----
NewPerson(t, startFloor, destinationFloor, giveUpThreshold) ==
  [startFloor |-> startFloor, destinationFloor |-> destinationFloor,
   waitingTime |-> 0, waitStartTime |-> t,
   journeyTime |-> 0, journeyStartTime |-> 0,
   assignedElevator |-> Num(-1),
   giveUpThreshold |-> giveUpThreshold, hasGivenUp |-> FALSE]

updateWaitingTime(p, t) ==
  [p EXCEPT !.waitingTime = t - p.waitStartTime,
            !.hasGivenUp = p.hasGivenUp \/ (t - p.waitStartTime > p.giveUpThreshold)]

startJourneyResets(p, t) ==
  [p EXCEPT !.journeyStartTime = t, !.waitingTime = 0]

startJourney(p, t) ==
  [p EXCEPT !.journeyStartTime = t,
            !.waitingTime = t - p.waitStartTime]

completeJourney(p, t) ==
  IF p.journeyStartTime > 0
  THEN [p EXCEPT !.journeyTime = t - p.journeyStartTime]
  ELSE p


\* ---- the building state threaded through one tick ----
\* A record b with the fields of Building (elevators, people, waitingPeople,
\* servedPeople, ...), the ghost set completed (people for whom
\* unloadPeopleAtFloor called completeJourney), threw (an exception has
\* escaped the current Simulation.update) and lastDecision (per elevator, the
\* last answer ElevatorSystem.decideNextFloor gave and where it was asked).

SeqToSet(s) == {s[i] : i \in 1 .. Len(s)}

unloadPeopleAtFloor(b, e, floor, t) ==
  LET el == b.elevators[e]
      leaves(id) == b.people[id].destinationFloor = floor
      stays(id) == b.people[id].destinationFloor # floor
      peopleToUnload == SelectSeq(el.people, leaves)
  IN IF Len(peopleToUnload) > 0
     THEN [b EXCEPT
             !.people = [id \in DOMAIN b.people |->
                           IF id \in SeqToSet(peopleToUnload)
                           THEN completeJourney(b.people[id], t)
                           ELSE b.people[id]],
             !.elevators[e].people = SelectSeq(el.people, stays),
             !.completed = b.completed \cup SeqToSet(peopleToUnload)]
     ELSE b

evacuatePassengers(b, e, t) ==
  IF Len(b.elevators[e].people) > 0
  THEN unloadPeopleAtFloor(b, e, b.elevators[e].currentFloor, t)
  ELSE b

snapToFloorAbove(el) ==
  IF Abs(el.y - FloorY(el.currentFloor)) > SnapDistance
  THEN [el EXCEPT !.y = FloorY(el.currentFloor + 1), !.currentFloor = el.currentFloor + 1]
  ELSE el

\* Elevator.enterRepairMode lines 359-373: snap to the nearer of the current
\* floor and the floor above when more than SnapDistance away from both.
snapToFloor(el) ==
  LET floorPos == FloorY(el.currentFloor)
      currentFloorDist == Abs(el.y - floorPos)
      floorAbovePos == FloorY(el.currentFloor + 1)
      floorAboveDist == Abs(el.y - floorAbovePos)
  IN IF currentFloorDist > SnapDistance /\ floorAboveDist > SnapDistance
     THEN IF currentFloorDist < floorAboveDist
          THEN [el EXCEPT !.y = floorPos]
          ELSE [el EXCEPT !.y = floorAbovePos, !.currentFloor = el.currentFloor + 1]
     ELSE el

enterRepairMode(b, e, t) ==
  LET el == b.elevators[e]
  IN IF t - el.stateStartTime < RepairGrace
     THEN b
     ELSE LET b1 == [b EXCEPT !.elevators[e] = snapToFloor(el)]
              b2 == evacuatePassengers(b1, e, t)
          IN [b2 EXCEPT !.elevators[e].floorsToVisit = {},
                        !.elevators[e].state = "REPAIR",
                        !.elevators[e].repairStartTime = t,
                        !.elevators[e].stateStartTime = t,
                        !.elevators[e].stuckWarning = FALSE]

updateHistory(el) ==
  [el EXCEPT !.positionHistory = Append(Tail(el.positionHistory), el.y),
             !.stateHistory = Append(Tail(el.stateHistory), el.state)]

\* Math.abs(a - c) < movementThreshold (0.5) on integer positions
WithinMovementThreshold(a, c) == 2 * Abs(a - c) < 1

isMoving(el) == el.state = "MOVING_UP" \/ el.state = "MOVING_DOWN"

checkForLogicalErrors(b, e, t) ==
  LET el0 == b.elevators[e]
  IN IF t - el0.stuckCheckTime < StuckCheckInterval
     THEN b
     ELSE
       LET el == [updateHistory(el0) EXCEPT !.stuckCheckTime = t]
           b1 == [b EXCEPT !.elevators[e] = el]
           timeInCurrentState == t - el.stateStartTime
           isPositionStuck == \A i \in 1 .. HistorySize :
                                WithinMovementThreshold(el.positionHistory[i], el.positionHistory[1])
           isStateSame == \A i \in 1 .. HistorySize :
                            el.stateHistory[i] = el.stateHistory[1]
           threshold == StuckThreshold(el.state)
       IN IF timeInCurrentState < LogicGraceShort THEN b1
          ELSE IF timeInCurrentState < LogicGraceLong THEN b1
          ELSE IF el.state = "MOVING_UP" /\ el.currentFloor >= NumFloors - 1
               THEN enterRepairMode(b1, e, t)
          ELSE IF el.state = "MOVING_DOWN" /\ el.currentFloor <= 0
               THEN enterRepairMode(b1, e, t)
          ELSE IF isMoving(el) /\ isPositionStuck /\ isStateSame
                  /\ timeInCurrentState > threshold
                  /\ timeInCurrentState > LogicGraceLong
               THEN enterRepairMode(b1, e, t)
          ELSE IF (el.state = "LOADING" \/ el.state = "IDLE")
                  /\ timeInCurrentState > threshold * 3
               THEN LET b2 == [b1 EXCEPT !.elevators[e].stuckWarning = TRUE]
                    IN IF el.state = "LOADING" /\ timeInCurrentState > threshold * 4
                       THEN enterRepairMode(b2, e, t)
                       ELSE b2
          ELSE [b1 EXCEPT !.elevators[e].stuckWarning = FALSE]

\* Elevator.update lines 141-162: idle history refresh and position check
idleHistoryRefresh(b, e, t) ==
  LET el == b.elevators[e]
  IN IF (el.state = "IDLE" \/ el.state = "LOADING")
        /\ t - el.stuckCheckTime >= StuckCheckInterval
     THEN [b EXCEPT !.elevators[e] = [updateHistory(el) EXCEPT !.stuckCheckTime = t]]
     ELSE b

positionCheck(b, e, t) ==
  LET el == b.elevators[e]
  IN IF t - el.positionCheckTimer > PositionCheckInterval
     THEN LET stateJustChanged == t - el.stateStartTime < PositionGrace
              b1 == IF ~stateJustChanged /\ isMoving(el)
                       /\ WithinMovementThreshold(el.y, el.lastPositionY)
                    THEN enterRepairMode(b, e, t)
                    ELSE b
          IN [b1 EXCEPT !.elevators[e].lastPositionY = b1.elevators[e].y,
                        !.elevators[e].positionCheckTimer = t]
     ELSE b

changeState(el, newState, t) ==
  [el EXCEPT !.state = newState, !.stateStartTime = t]


\* ---- ElevatorSystem (dispatcher) ----
\* the largest floor count over the elevators, each built with the
\* building's number of floors
getTotalFloors == NumFloors

decideNextFloorInclusive(el, raw) ==
  IF raw.kind = "num" /\ raw.val >= 0 /\ raw.val <= getTotalFloors
  THEN raw.val ELSE el.currentFloor

\* raw is what the active algorithm's decideNextFloor produced (a value, NaN,
\* or an exception, which the try/catch turns into the current floor).
decideNextFloor(el, raw) ==
  IF IsValidNumber(raw, getTotalFloors) THEN raw.val ELSE el.currentFloor

\* raw is what the active algorithm's assignElevatorToPerson produced; the
\* dispatcher hands it on as it is (an exception propagates to the caller).
assignElevatorToPerson(raw) == raw

\* Elevator.getNextFloorFromSystem
getNextFloorFromSystem(el, raw) ==
  LET nextFloor == decideNextFloor(el, raw)
  IN IF nextFloor >= 0 /\ nextFloor < NumFloors THEN nextFloor ELSE el.currentFloor

\* ---- the elevator snapshot handed to an algorithm ----
\* an array handed over: shared tells whether it is the very object the
\* core holds (a write to it is a write to the core) or one made for the call
SameArray(items) == [shared |-> TRUE, items |-> items]

\* Array.from(...), people.map(...): a new array with the same items
ArrayFrom(items) == [shared |-> FALSE, items |-> items]

\* Elevator.passengerDestinations
passengerDestinations(w, el) ==
  {w.people[el.people[i]].destinationFloor : i \in DOMAIN el.people}

\* ElevatorSystem.convertElevatorToData (without id and targetFloor); every
\* field but the two arrays is a number, string or boolean, copied by value
\* into a new object
convertElevatorToData(w, el) ==
  [currentFloor |-> el.currentFloor,
   state |-> el.state,
   direction |-> currentDirection(el),
   passengers |-> Len(el.people),
   capacity |-> Capacity,
   floorsToVisit |-> ArrayFrom(el.floorsToVisit),
   passengerDestinations |-> ArrayFrom(passengerDestinations(w, el)),
   isInRepair |-> el.state = "REPAIR"]

\* what a decideNextFloor request showed of the elevator it was made for
RequestFor(elevator, currentFloor) ==
  [state |-> elevator.state, direction |-> elevator.direction,
   hasStops |-> elevator.floorsToVisit.items # {},
   atStop |-> currentFloor \in elevator.floorsToVisit.items]

\* ---- Elevator.update ----
\* an idle elevator that asks the dispatcher whatever its floorsToVisit holds
updateIdleAlwaysAsks(b, e, t, raw) ==
  LET el == b.elevators[e]
      target == getNextFloorFromSystem(el, raw)
      el1 == [el EXCEPT !.targetFloor = target]
      bd == [b EXCEPT !.lastDecision[e] =
               [asked |-> TRUE, valid |-> IsValidNumber(raw, getTotalFloors),
                at |-> el.currentFloor, floor |-> decideNextFloor(el, raw),
                request |-> RequestFor(convertElevatorToData(b, el), el.currentFloor)]]
  IN IF target < 0 \/ target >= NumFloors
     THEN [bd EXCEPT !.elevators[e] = el1]
     ELSE IF target = el.currentFloor
          THEN [bd EXCEPT !.elevators[e] = changeState(el1, "LOADING", t)]
     ELSE [bd EXCEPT !.elevators[e] =
             changeState(el1, IF target > el.currentFloor
                              THEN "MOVING_UP" ELSE "MOVING_DOWN", t)]

updateIdle(b, e, t, raw) ==
  LET el == b.elevators[e]
  IN IF el.floorsToVisit = {} THEN b
     ELSE IF el.currentFloor \in el.floorsToVisit
          THEN [b EXCEPT !.elevators[e] = changeState(el, "LOADING", t)]
     ELSE LET target == getNextFloorFromSystem(el, raw)
              el1 == [el EXCEPT !.targetFloor = target]
              bd == [b EXCEPT !.lastDecision[e] =
                       [asked |-> TRUE, valid |-> IsValidNumber(raw, getTotalFloors),
                        at |-> el.currentFloor, floor |-> decideNextFloor(el, raw),
                        request |-> RequestFor(convertElevatorToData(b, el),
                                               el.currentFloor)]]
          IN IF target < 0 \/ target >= NumFloors
             THEN [bd EXCEPT !.elevators[e] = el1]
             ELSE IF target = el.currentFloor
                  THEN [bd EXCEPT !.elevators[e] = changeState(el1, "LOADING", t)]
             ELSE [bd EXCEPT !.elevators[e] =
                     changeState(el1, IF target > el.currentFloor
                                      THEN "MOVING_UP" ELSE "MOVING_DOWN", t)]

updateMovingUpOvershoots(b, e, t) ==
  LET el == b.elevators[e]
      targetYUp == FloorY(el.targetFloor)
  IN IF el.y > targetYUp
     THEN IF el.y - Speed <= targetYUp
          THEN [b EXCEPT !.elevators[e] =
                  changeState([el EXCEPT !.y = el.y - Speed,
                                         !.currentFloor = el.targetFloor], "LOADING", t)]
          ELSE [b EXCEPT !.elevators[e].y = el.y - Speed]
     ELSE b

updateMovingUp(b, e, t) ==
  LET el == b.elevators[e]
      targetYUp == FloorY(el.targetFloor)
  IN IF el.y > targetYUp
     THEN IF el.y - Speed <= targetYUp
          THEN [b EXCEPT !.elevators[e] =
                  changeState([el EXCEPT !.y = targetYUp,
                                         !.currentFloor = el.targetFloor], "LOADING", t)]
          ELSE [b EXCEPT !.elevators[e].y = el.y - Speed]
     ELSE b

updateMovingDown(b, e, t) ==
  LET el == b.elevators[e]
      targetYDown == FloorY(el.targetFloor)
  IN IF el.y < targetYDown
     THEN IF el.y + Speed >= targetYDown
          THEN [b EXCEPT !.elevators[e] =
                  changeState([el EXCEPT !.y = targetYDown,
                                         !.currentFloor = el.targetFloor], "LOADING", t)]
          ELSE [b EXCEPT !.elevators[e].y = el.y + Speed]
     ELSE b

\* a loading elevator that sets off again without becoming idle
updateLoadingToMoving(b, e, t) ==
  LET el == b.elevators[e]
      b1 == [b EXCEPT !.elevators[e].floorsToVisit = el.floorsToVisit \ {el.currentFloor}]
      b2 == unloadPeopleAtFloor(b1, e, el.currentFloor, t)
  IN IF t - el.stateStartTime >= LoadingDuration
     THEN [b2 EXCEPT !.elevators[e] = changeState(b2.elevators[e], "MOVING_DOWN", t)]
     ELSE b2

updateLoading(b, e, t) ==
  LET el == b.elevators[e]
      b1 == [b EXCEPT !.elevators[e].floorsToVisit = el.floorsToVisit \ {el.currentFloor}]
      b2 == unloadPeopleAtFloor(b1, e, el.currentFloor, t)
  IN IF t - el.stateStartTime >= LoadingDuration
     THEN [b2 EXCEPT !.elevators[e] = changeState(b2.elevators[e], "IDLE", t)]
     ELSE b2

\* a repair that is over as soon as the breakdown's grace period
updateRepairCutShort(b, e, t) ==
  LET el == b.elevators[e]
  IN IF t - el.repairStartTime >= RepairGrace
     THEN [b EXCEPT !.elevators[e] = changeState(el, "IDLE", t)]
     ELSE b

updateRepair(b, e, t) ==
  LET el == b.elevators[e]
  IN IF t - el.repairStartTime >= StuckRepair
     THEN [b EXCEPT !.elevators[e] = changeState(el, "IDLE", t)]
     ELSE b

\* TRUE when this update asks the dispatcher for the next floor
asksNextFloor(el) ==
  el.state = "IDLE" /\ el.floorsToVisit # {} /\ el.currentFloor \notin el.floorsToVisit

\* One Elevator.update: the set of results over what the algorithm may answer.
ElevatorUpdate(b, e, t) ==
  LET b1 == IF b.elevators[e].state # "REPAIR"
            THEN checkForLogicalErrors(b, e, t) ELSE b
      b2 == idleHistoryRefresh(b1, e, t)
      b3 == positionCheck(b2, e, t)
      el == b3.elevators[e]
  IN CASE el.state = "REPAIR" -> {updateRepair(b3, e, t)}
       [] el.state = "IDLE" ->
            IF asksNextFloor(el)
            THEN {updateIdle(b3, e, t, raw) : raw \in DecideOutputs}
            ELSE {updateIdle(b3, e, t, NaNValue)}
       [] el.state = "MOVING_UP" -> {updateMovingUp(b3, e, t)}
       [] el.state = "MOVING_DOWN" -> {updateMovingDown(b3, e, t)}
       [] OTHER -> {updateLoading(b3, e, t)}


\* ---- Elevator.addPerson / addFloorToVisit ----
addFloorToVisit(b, e, floor) ==
  [b EXCEPT !.elevators[e].floorsToVisit = b.elevators[e].floorsToVisit \cup {floor}]

hasRoomInclusive(el) == Len(el.people) <= Capacity

hasRoom(el) == Len(el.people) < Capacity

\* Elevator.addPerson, taken when it returns true
ElevatorAddPerson(b, e, id, t) ==
  LET b1 == [b EXCEPT !.people[id] = startJourney(b.people[id], t),
                      !.elevators[e].people = Append(b.elevators[e].people, id)]
  IN addFloorToVisit(b1, e, b.people[id].destinationFloor)

\* ---- Building ----
isAssignedTo(p, e) == p.assignedElevator.kind = "num" /\ p.assignedElevator.val = e

RemoveNone(s, x) == s

RemoveFirst(s, x) ==
  IF \E i \in 1 .. Len(s) : s[i] = x
  THEN LET i == CHOOSE j \in 1 .. Len(s) : s[j] = x /\ \A k \in 1 .. (j - 1) : s[k] # x
       IN SubSeq(s, 1, i - 1) \o SubSeq(s, i + 1, Len(s))
  ELSE s

RECURSIVE loadLoop(_, _, _, _, _)
\* the for loop of Building.loadPeopleToElevator over peopleForThisElevator;
\* b.waitingPeople[floor] is not touched until the loop is over (remaining)
loadLoop(b, e, todo, remaining, t) ==
  IF todo = << >> THEN [b |-> b, remaining |-> remaining]
  ELSE LET id == Head(todo)
       IN IF hasRoom(b.elevators[e])
          THEN LET b1 == ElevatorAddPerson(b, e, id, t)
                   b2 == IF b1.warmupPhase
                         THEN [b1 EXCEPT !.peopleServedDuringWarmup = Append(@, id)]
                         ELSE [b1 EXCEPT !.peopleServedAfterWarmup = Append(@, id)]
                   b3 == [b2 EXCEPT !.servedPeople = Append(@, id)]
               IN loadLoop(b3, e, Tail(todo), RemoveFirst(remaining, id), t)
          ELSE loadLoop(b, e, Tail(todo), remaining, t)

\* boarding offered to everybody queued on the floor
loadPeopleToElevatorAnyone(b, e, floor, t) ==
  LET r == loadLoop(b, e, b.waitingPeople[floor], b.waitingPeople[floor], t)
  IN [r.b EXCEPT !.waitingPeople[floor] = r.remaining,
                 !.floorButtonPressed[floor] =
                    IF r.remaining = << >> THEN FALSE ELSE r.b.floorButtonPressed[floor]]

loadPeopleToElevator(b, e, floor, t) ==
  LET forThis(id) == isAssignedTo(b.people[id], e)
      peopleForThisElevator == SelectSeq(b.waitingPeople[floor], forThis)
      r == loadLoop(b, e, peopleForThisElevator, b.waitingPeople[floor], t)
  IN [r.b EXCEPT !.waitingPeople[floor] = r.remaining,
                 !.floorButtonPressed[floor] =
                    IF r.remaining = << >> THEN FALSE ELSE r.b.floorButtonPressed[floor]]

\* Building.findNewElevatorForPerson; raw is the algorithm's answer to the
\* assignElevatorToPerson call inside the try block
findNewElevatorForPerson(b, excludeElevatorIndex, raw) ==
  LET usable == {i \in Lanes : i # excludeElevatorIndex /\ b.elevators[i].state # "REPAIR"}
      first == IF usable # {}
               THEN CHOOSE i \in usable : \A j \in usable : i <= j
               ELSE (excludeElevatorIndex + 1) % NumLanes
      ideal == assignElevatorToPerson(raw)
  IN IF ideal.kind = "num" /\ ideal.val \in Lanes
        /\ ideal.val # excludeElevatorIndex
        /\ b.elevators[ideal.val].state # "REPAIR"
     THEN ideal.val
     ELSE first

RECURSIVE reassignLoop(_, _, _, _)
reassignLoop(b, brokenElevatorIndex, floor, todo) ==
  IF todo = << >> THEN {b}
  ELSE UNION {
         LET newElevator == findNewElevatorForPerson(b, brokenElevatorIndex, raw)
             b1 == [b EXCEPT !.people[Head(todo)].assignedElevator = Num(newElevator)]
         IN reassignLoop(addFloorToVisit(b1, newElevator, floor),
                         brokenElevatorIndex, floor, Tail(todo))
         : raw \in AssignOutputs }

reassignPeopleFromBrokenElevator(b, brokenElevatorIndex, floor) ==
  LET forThis(id) == isAssignedTo(b.people[id], brokenElevatorIndex)
      peopleToReassign == SelectSeq(b.waitingPeople[floor], forThis)
  IN reassignLoop(b, brokenElevatorIndex, floor, peopleToReassign)

\* the body of the elevators.forEach in Building.update for elevator e
updateOneElevator(b, e, t) ==
  UNION {
    LET currentFloor == b1.elevators[e].currentFloor
        b2 == IF b1.elevators[e].state = "LOADING"
              THEN loadPeopleToElevator(b1, e, currentFloor, t)
              ELSE b1
    IN IF b2.repairCheckLive /\ b2.elevators[e].state = "REPAIR"
       THEN reassignPeopleFromBrokenElevator(b2, e, currentFloor)
       ELSE {b2}
    : b1 \in ElevatorUpdate(b, e, t) }

RECURSIVE updateElevatorsFrom(_, _, _)
updateElevatorsFrom(b, e, t) ==
  IF e = NumLanes THEN {b}
  ELSE UNION {updateElevatorsFrom(b1, e + 1, t) : b1 \in updateOneElevator(b, e, t)}

updateWaitingPeopleKeepsAll(b, t) ==
  LET waitingIds == UNION {SeqToSet(b.waitingPeople[f]) : f \in Floors}
  IN [b EXCEPT !.people = [id \in DOMAIN b.people |->
                             IF id \in waitingIds THEN updateWaitingTime(b.people[id], t)
                             ELSE b.people[id]]]

\* lines 101-126 of Building.update: waiting timers and give-ups
updateWaitingPeople(b, t) ==
  LET waitingIds == UNION {SeqToSet(b.waitingPeople[f]) : f \in Floors}
      people1 == [id \in DOMAIN b.people |->
                    IF id \in waitingIds THEN updateWaitingTime(b.people[id], t)
                    ELSE b.people[id]]
      keeps(id) == ~people1[id].hasGivenUp
      queues1 == [f \in Floors |-> SelectSeq(b.waitingPeople[f], keeps)]
      removed == {<<f, i>> \in Floors \X (1 .. MaxPeople + 1) :
                    i <= Len(b.waitingPeople[f]) /\ people1[b.waitingPeople[f][i]].hasGivenUp}
  IN [b EXCEPT !.people = people1,
               !.waitingPeople = queues1,
               !.stairsUsedCount = b.stairsUsedCount + Cardinality(removed),
               !.floorButtonPressed = [f \in Floors |->
                  IF queues1[f] = << >> THEN FALSE ELSE b.floorButtonPressed[f]]]

\* a building whose warm-up never ends
BuildingUpdateStaysWarm(b, t) ==
  {updateWaitingPeople(b1, t) : b1 \in updateElevatorsFrom(b, 0, t)}

BuildingUpdate(b, t) ==
  LET b0 == IF b.warmupPhase /\ t - b.warmupStartTime > WarmupPeriod * 1000
            THEN [b EXCEPT !.warmupPhase = FALSE] ELSE b
  IN {updateWaitingPeople(b1, t) : b1 \in updateElevatorsFrom(b0, 0, t)}

\* Building.addPerson for a person starting on floor with the drawn target
\* floor and give-up threshold; raw is the algorithm's assignment answer
BuildingAddPerson(b, floor, targetFloor, giveUpThreshold, raw, t) ==
  LET id == Len(b.people) + 1
      b1 == [b EXCEPT !.people = Append(b.people, NewPerson(t, floor, targetFloor, giveUpThreshold)),
                      !.waitingPeople[floor] = Append(b.waitingPeople[floor], id)]
      assignedElevator == assignElevatorToPerson(raw)
  IN IF assignedElevator.kind = "throw"
     THEN [b1 EXCEPT !.threw = TRUE]
     ELSE LET b2 == [b1 EXCEPT !.people[id].assignedElevator = assignedElevator]
          IN IF assignedElevator.kind = "num" /\ assignedElevator.val \in Lanes
             THEN [addFloorToVisit(b2, assignedElevator.val, floor)
                     EXCEPT !.floorButtonPressed[floor] = TRUE]
             ELSE [b2 EXCEPT !.threw = TRUE]

\* a draw of a random generator with values in [0, 1): u / RandomSteps
Units == 0 .. (RandomSteps - 1)

\* Math.floor(p.random(max)) and Math.floor(p.random(min, max)) on the draw u
pRandomFloor(u, min, max) == min + (u * (max - min)) \div RandomSteps

TargetFloorsAny(floor) == {pRandomFloor(u, 0, NumFloors) : u \in Units}

\* Building.addPerson lines 253-264: the destinations it can pick; the
\* do-while on the other floors ends with the first draw that differs
TargetFloors(floor) ==
  IF floor = NumFloors - 1 THEN {pRandomFloor(u, 0, floor) : u \in Units}
  ELSE IF floor = 0 THEN {pRandomFloor(u, 1, NumFloors) : u \in Units}
  ELSE {pRandomFloor(u, 0, NumFloors) : u \in Units} \ {floor}


\* ---- Building.getStatistics ----
Min(x, y) == IF x < y THEN x ELSE y
Max(x, y) == IF x > y THEN x ELSE y

\* Math.round(n / d) for d > 0: the nearest integer, halves upwards
Round(n, d) == (2 * n + d) \div (2 * d)

\* The efficiency score of getStatistics on
\*   count            peopleServedAfterWarmup.length
\*   totalWaitTime    the sum of their wait times, in milliseconds
\*   stairsUsedCount  passengers who gave up
\*   onboard          passengers in all elevators (calculateAverageUtilization
\*                    with the same capacity in every elevator)
\*   waiting          passengers in all queues (calculateEstimatedFlowRate)
\*   speed, capacity, floors, lanes   the configuration
\* The code's fractions are kept exact over the denominator d.
efficiencyScoreUnfloored(s) ==
  IF s.count > 0
  THEN LET d == 1000 * s.count * s.capacity * s.lanes
           waitTimePenalty == Min(500 * d, s.totalWaitTime * 15 * s.capacity * s.lanes)
           giveUpPenalty == Min(300, s.stairsUsedCount * 10)
           utilizationPenalty ==
             Min(200 * d, Abs(10 * s.onboard - 7 * s.capacity * s.lanes) * 20 * 1000 * s.count)
           speedBonus == (11 - s.speed) * 10
           capacityBonus == (16 - s.capacity) * 5
           flowRateBonus == Min(150 * d, s.waiting * 15 * 50 * s.count * s.capacity * s.lanes)
           floorBonus == Min(100, (s.floors - 5) * 8)
           elevatorPenalty == Min(100, Max(0, (4 - s.lanes) * 25))
           difficultyBonus == speedBonus + capacityBonus + floorBonus + elevatorPenalty
       IN Round((1000 - giveUpPenalty + difficultyBonus) * d
                  - waitTimePenalty - utilizationPenalty + flowRateBonus, d)
  ELSE 0

efficiencyScore(s) == Max(0, efficiencyScoreUnfloored(s))

RECURSIVE totalWaitTime(_, _)
totalWaitTime(w, served) ==
  IF served = << >> THEN 0
  ELSE w.people[Head(served)].waitingTime + totalWaitTime(w, Tail(served))

RECURSIVE CountIn(_, _)
CountIn(f, dom) ==
  IF dom = {} THEN 0
  ELSE LET x == CHOOSE y \in dom : TRUE IN Len(f[x]) + CountIn(f, dom \ {x})

\* what getStatistics computes on the building (a call within
\* EFFICIENCY_CALC_INTERVAL of the last one returns the record computed then)
getStatistics(w) ==
  LET s == [count |-> Len(w.peopleServedAfterWarmup),
            totalWaitTime |-> totalWaitTime(w, w.peopleServedAfterWarmup),
            stairsUsedCount |-> w.stairsUsedCount,
            onboard |-> CountIn([e \in Lanes |-> w.elevators[e].people], Lanes),
            waiting |-> CountIn(w.waitingPeople, Floors),
            speed |-> Speed, capacity |-> Capacity,
            floors |-> NumFloors, lanes |-> NumLanes]
  IN [totalPeopleServed |-> s.count,
      peopleWhoGaveUp |-> w.stairsUsedCount,
      efficiencyScore |-> efficiencyScore(s),
      warmupActive |-> w.warmupPhase]

\* ---- Simulation ----
VARIABLES b, now, frameCounter, flowRate, isPaused, ticks, gaps, settingsChanges,
          algorithmManager, call, replay, applied, tracker,
          stats

vars == <<b, now, frameCounter, flowRate, isPaused, ticks, gaps, settingsChanges, stats,
          algorithmManager, call, replay, applied, tracker>>

\* stats holds the inputs and the result of a call of the efficiency score
\* on its own (ScoreSpec); the simulation leaves it alone
auxVars == <<stats, algorithmManager, call, replay, applied, tracker>>

NoDecision ==
  [asked |-> FALSE, valid |-> FALSE, at |-> 0, floor |-> 0,
   request |-> [state |-> "", direction |-> 0, hasStops |-> FALSE, atStop |-> FALSE]]

\* new Building(p, settings) at p.millis() = t
NewBuilding(t, live) ==
  [elevators |-> [e \in Lanes |-> NewElevator(t)],
   people |-> << >>,
   waitingPeople |-> [f \in Floors |-> << >>],
   floorButtonPressed |-> [f \in Floors |-> FALSE],
   stairsUsedCount |-> 0,
   servedPeople |-> << >>,
   peopleServedDuringWarmup |-> << >>,
   peopleServedAfterWarmup |-> << >>,
   warmupPhase |-> TRUE,
   warmupStartTime |-> t,
   completed |-> {},
   threw |-> FALSE,
   lastDecision |-> [e \in Lanes |-> NoDecision],
   repairCheckLive |-> live]

\* a spawn one frame after the counter reached the threshold
spawnDueLate(fc, rate) == fc * rate > FramesPerFlowUnit

\* frameCounter >= peopleSpawnRate, with peopleSpawnRate = 60 / peopleFlowRate
spawnDue(fc, rate) == fc * rate >= FramesPerFlowUnit

\* the floors Simulation.update can draw: the edge case (0 or top) or
\* rng.randomInt(0, numberOfFloors)
randomInt(u, min, max) == ((u * (max - min)) \div RandomSteps) + min

SpawnFloors == {0, NumFloors - 1} \cup {randomInt(u, 0, NumFloors) : u \in Units}

\* Simulation.update below its paused check, one frame (FrameMs) after the
\* previous one
SimulationUpdate ==
  LET t == now + FrameMs
      fc == frameCounter + 1
  IN /\ ticks < MaxTicks
     /\ spawnDue(fc, flowRate) => Len(b.people) < MaxPeople
     /\ now' = t
     /\ ticks' = ticks + 1
     /\ \E b1 \in BuildingUpdate([b EXCEPT !.threw = FALSE], t) :
          IF spawnDue(fc, flowRate)
          THEN /\ frameCounter' = 0
               /\ \E floor \in SpawnFloors, giveUpThreshold \in GiveUpThresholds,
                     raw \in AssignOutputs :
                    \E targetFloor \in TargetFloors(floor) :
                       b' = BuildingAddPerson(b1, floor, targetFloor, giveUpThreshold, raw, t)
          ELSE /\ frameCounter' = fc
               /\ b' = b1

\* a frame of the draw loop while playing
Tick ==
  /\ ~isPaused
  /\ SimulationUpdate
  /\ UNCHANGED <<flowRate, isPaused, gaps, settingsChanges>>
  /\ UNCHANGED auxVars

\* the step button: play(); update(); pause() - pause() is skipped when
\* update() throws
Step ==
  /\ isPaused
  /\ SimulationUpdate
  /\ isPaused' = ~b'.threw
  /\ UNCHANGED <<flowRate, gaps, settingsChanges>>
  /\ UNCHANGED auxVars

\* frames of the draw loop while paused: Simulation.update returns at once
\* and p.millis() keeps running
PausedFrames ==
  /\ isPaused
  /\ gaps < MaxGaps
  /\ gaps' = gaps + 1
  /\ now' = now + GapMs
  /\ UNCHANGED <<b, frameCounter, flowRate, isPaused, ticks, settingsChanges>>
  /\ UNCHANGED auxVars

Play ==
  /\ isPaused
  /\ isPaused' = FALSE
  /\ UNCHANGED <<b, now, frameCounter, flowRate, ticks, gaps, settingsChanges>>
  /\ UNCHANGED auxVars

Pause ==
  /\ ~isPaused
  /\ isPaused' = TRUE
  /\ UNCHANGED <<b, now, frameCounter, flowRate, ticks, gaps, settingsChanges>>
  /\ UNCHANGED auxVars

\* Simulation.updateSettings with a new peopleFlowRate
UpdateSettings(rate) ==
  /\ settingsChanges < MaxSettingsChanges
  /\ rate # flowRate
  /\ flowRate' = rate
  /\ settingsChanges' = settingsChanges + 1
  /\ UNCHANGED <<b, now, frameCounter, isPaused, ticks, gaps>>
  /\ UNCHANGED auxVars

\* ---- the snapshots handed to an algorithm ----
\* Building.getFloorStats: per floor a new object with a new array of new
\* PersonData objects
getFloorStats(w) ==
  [f \in Floors |->
     [floor |-> f,
      waitingCount |-> Len(w.waitingPeople[f]),
      waitingPeople |->
        ArrayFrom([i \in DOMAIN w.waitingPeople[f] |->
                     [startFloor |-> w.people[w.waitingPeople[f][i]].startFloor,
                      destinationFloor |-> w.people[w.waitingPeople[f][i]].destinationFloor,
                      waitTime |-> w.people[w.waitingPeople[f][i]].waitingTime]])]]

getBuildingData(w) == [e \in Lanes |-> convertElevatorToData(w, w.elevators[e])]

\* no decision call in progress, calls of them completed
Returned(calls) ==
  [active |-> FALSE, elevators |-> << >>, floorStats |-> << >>, mutations |-> 0,
   calls |-> calls]

NoCall == Returned(0)

\* ---- SeededRandom ----
\* (a * seed) % m, by Schrage's decomposition so that no product leaves the
\* 32-bit integers (the double arithmetic of the source is exact here)
nextSeed(seed) ==
  LET q == SeedModulus \div SeedMultiplier
      r == SeedModulus % SeedMultiplier
      v == SeedMultiplier * (seed % q) - r * (seed \div q)
  IN IF v > 0 THEN v ELSE v + SeedModulus

RECURSIVE WarmedUp(_, _)
WarmedUp(seed, n) == IF n = 0 THEN seed ELSE WarmedUp(nextSeed(seed), n - 1)

\* new SeededRandom(seed)
NewSeededRandom(seed) ==
  LET s == seed % SeedModulus
  IN WarmedUp(IF s <= 0 THEN s + SeedModulus - 1 ELSE s, WarmUpDraws)

\* Math.floor((seed / m) * n), for the seed random() has just stored
ScaledFloor(seed, n) ==
  Cardinality({k \in 1 .. (n - 1) :
                 seed >= k * (SeedModulus \div n) + ((k * (SeedModulus % n) + n - 1) \div n)})

\* randomBool(1 / odds): random() < 1 / odds
randomBool(seed, odds) == ScaledFloor(seed, odds) = 0

\* the floor Simulation.update draws for a spawn and the seed left behind
spawnFloor(seed) ==
  LET s1 == nextSeed(seed)
      s2 == nextSeed(s1)
  IN [seed |-> s2,
      floor |-> IF randomBool(s1, 5)
                THEN (IF randomBool(s2, 2) THEN 0 ELSE NumFloors - 1)
                ELSE ScaledFloor(s2, NumFloors)]

\* p.random(30000, 90000) of the Person constructor
pRandomThresholds ==
  {GiveUpMin + (u * (GiveUpMax - GiveUpMin)) \div RandomSteps : u \in Units}

\* the seeds the runs are started with
Seeds == 1 .. NumSeeds

\* a second simulation run beside the first: its building, spawn counter
\* and generator
NewReplay(seed) ==
  [active |-> TRUE, seed |-> NewSeededRandom(seed),
   other |-> [b |-> NewBuilding(0, TRUE), frameCounter |-> 0, seed |-> NewSeededRandom(seed)]]

NoReplay == [NewReplay(1) EXCEPT !.active = FALSE]

\* ---- AlgorithmManager ----
\* an algorithm object: its name is its id; two objects of one name are two
\* versions of an algorithm (a custom one, edited and applied again)
AlgorithmNames == {"player", "default", "custom"}

Algorithms == [name : AlgorithmNames, version : 1 .. AlgorithmVersions]

NoAlgorithm == [name |-> "", version |-> 0]

BuiltIn(name) == [name |-> name, version |-> 1]

RECURSIVE Filter(_, _)
Filter(algorithms, id) ==
  IF algorithms = << >> THEN << >>
  ELSE IF Head(algorithms).id = id THEN Filter(Tail(algorithms), id)
  ELSE <<Head(algorithms)>> \o Filter(Tail(algorithms), id)

\* algorithms.find(a => a.id === id): the first entry positions with that id
Find(algorithms, id) == {i \in DOMAIN algorithms : algorithms[i].id = id}

registerAlgorithm(m, algorithm) ==
  LET id == algorithm.name
      m1 == [m EXCEPT !.algorithms =
                Filter(m.algorithms, id) \o <<[id |-> id, algorithm |-> algorithm]>>]
  IN IF m.currentAlgorithm = NoAlgorithm
     THEN [m1 EXCEPT !.currentAlgorithm = algorithm, !.currentAlgorithmId = id]
     ELSE m1

\* a swap that records the new id and keeps the old algorithm object
setCurrentAlgorithmIdOnly(m, id) ==
  LET found == Find(m.algorithms, id)
  IN IF found # {}
     THEN [m EXCEPT !.currentAlgorithmId = id, !.returned = TRUE,
                    !.entry = m.algorithms[CHOOSE i \in found : \A j \in found : i <= j]]
     ELSE [m EXCEPT !.returned = FALSE]

\* returned is the result handed back; entry is the registry entry a
\* successful call found
setCurrentAlgorithm(m, id) ==
  LET found == Find(m.algorithms, id)
  IN IF found # {}
     THEN LET entry == m.algorithms[CHOOSE i \in found : \A j \in found : i <= j]
          IN [m EXCEPT !.currentAlgorithm = entry.algorithm,
                       !.currentAlgorithmId = id,
                       !.returned = TRUE, !.entry = entry]
     ELSE [m EXCEPT !.returned = FALSE]

getCurrentAlgorithm(m) == m.currentAlgorithm

\* new AlgorithmManager(): nothing registered, no current algorithm
EmptyAlgorithmManager ==
  [algorithms |-> << >>, currentAlgorithm |-> NoAlgorithm, currentAlgorithmId |-> "",
   returned |-> FALSE, entry |-> [id |-> "", algorithm |-> NoAlgorithm],
   answeredBy |-> NoAlgorithm, asked |-> 0, registrations |-> 0, swaps |-> 0]

\* algorithms.forEach(algo => algorithmManager.registerAlgorithm(algo)) on
\* what reg() resolved to
registerAll(m) == registerAlgorithm(registerAlgorithm(m, BuiltIn("player")), BuiltIn("default"))

\* the manager once Simulation.initAlgorithms has registered the built-in
\* algorithms: the first one registered is the current one
NewAlgorithmManager == registerAll(EmptyAlgorithmManager)

\* ---- shipped strategies: decideNextFloor ----
\* no strategy function applied yet
NotApplied == [function |-> "", computed |-> FALSE, input |-> << >>, output |-> << >>]

\* floors.filter(floor => direction > 0 ? floor > currentFloor : floor < currentFloor),
\* with the comparison turned round
floorsBehind(floors, currentFloor, direction) ==
  SelectSeq(floors, LAMBDA floor :
              IF direction > 0 THEN floor < currentFloor ELSE floor > currentFloor)

floorsInDirection(floors, currentFloor, direction) ==
  SelectSeq(floors, LAMBDA floor :
              IF direction > 0 THEN floor > currentFloor ELSE floor < currentFloor)

floorsInOppositeDirection(floors, currentFloor, direction) ==
  SelectSeq(floors, LAMBDA floor :
              IF direction > 0 THEN floor < currentFloor ELSE floor > currentFloor)

\* Math.min(...floors), Math.max(...floors) of a non-empty array
MinOf(floors) == CHOOSE x \in SeqToSet(floors) : \A y \in SeqToSet(floors) : x <= y
MaxOf(floors) == CHOOSE x \in SeqToSet(floors) : \A y \in SeqToSet(floors) : x >= y

\* BaseElevatorAlgorithm.findClosestFloor: the first of the closest floors
RECURSIVE closestFrom(_, _, _)
closestFrom(currentFloor, floors, closestFloor) ==
  IF floors = << >> THEN closestFloor
  ELSE closestFrom(currentFloor, Tail(floors),
                   IF Abs(currentFloor - Head(floors)) < Abs(currentFloor - closestFloor)
                   THEN Head(floors) ELSE closestFloor)

findClosestFloor(currentFloor, floors) ==
  IF floors = << >> THEN currentFloor ELSE closestFrom(currentFloor, floors, floors[1])

\* Simple6.applyScanAlgorithm
applyScanAlgorithm(elevator, floors) ==
  LET ahead == floorsInDirection(floors, elevator.currentFloor, elevator.direction)
      opposite == floorsInOppositeDirection(floors, elevator.currentFloor, elevator.direction)
  IN IF elevator.direction = 0 THEN findClosestFloor(elevator.currentFloor, floors)
     ELSE IF ahead # << >>
          THEN (IF elevator.direction > 0 THEN MinOf(ahead) ELSE MaxOf(ahead))
     ELSE IF opposite # << >>
          THEN (IF elevator.direction > 0 THEN MaxOf(opposite) ELSE MinOf(opposite))
     ELSE findClosestFloor(elevator.currentFloor, floors)

\* Simple6.decideNextFloor for an elevator with room and nobody waiting for it
Simple6DecideNextFloor(elevator) ==
  LET floorsToVisit == SelectSeq(elevator.floorsToVisit,
                                 LAMBDA floor : floor # elevator.currentFloor)
  IN IF floorsToVisit = << >> THEN elevator.currentFloor
     ELSE applyScanAlgorithm(elevator, floorsToVisit)

\* SCANAlgorithm.decideNextFloor, the SCAN template of the editor
SCANDecideNextFloor(elevator) ==
  LET floorsToVisit == SelectSeq(elevator.floorsToVisit,
                                 LAMBDA floor : floor # elevator.currentFloor)
      ahead == floorsInDirection(floorsToVisit, elevator.currentFloor, elevator.direction)
      opposite == floorsInOppositeDirection(floorsToVisit, elevator.currentFloor,
                                            elevator.direction)
  IN IF floorsToVisit = << >> THEN elevator.currentFloor
     ELSE IF elevator.direction = 0
          THEN findClosestFloor(elevator.currentFloor, floorsToVisit)
     ELSE IF ahead # << >>
          THEN (IF elevator.direction > 0 THEN MinOf(ahead) ELSE MaxOf(ahead))
     ELSE IF opposite # << >>
          THEN (IF elevator.direction > 0 THEN MaxOf(opposite) ELSE MinOf(opposite))
     ELSE elevator.currentFloor

\* SimplePlayerAlgorithm.decideNextFloor
SimplePlayerDecideNextFloor(elevator) ==
  LET ahead == floorsInDirection(elevator.floorsToVisit, elevator.currentFloor,
                                 elevator.direction)
  IN IF elevator.floorsToVisit = << >> THEN elevator.currentFloor
     ELSE IF elevator.direction # 0 /\ ahead # << >>
          THEN (IF elevator.direction > 0 THEN MinOf(ahead) ELSE MaxOf(ahead))
     ELSE findClosestFloor(elevator.currentFloor, elevator.floorsToVisit)

\* ---- shipped strategies: the load-balancing assignment ----
\* Simple3 / Simple4 assignElevatorToPerson: the forEach over the elevators'
\* passenger counts from index i (0-based, as in the source), carrying
\* current and chosen
RECURSIVE balanceLoop(_, _, _, _)
balanceLoop(passengers, i, current, chosen) ==
  IF i >= Len(passengers) THEN chosen
  ELSE IF passengers[i + 1] = 0
       THEN balanceLoop(passengers, i + 1, current, i)
  ELSE IF current # 0 /\ passengers[i + 1] < current
       THEN balanceLoop(passengers, i + 1, current, i)
  ELSE balanceLoop(passengers, i + 1, passengers[i + 1], chosen)

Simple3Assign(passengers) == balanceLoop(passengers, 0, 0, 0)

\* ---- the statistics callback and the statistics cache ----
\* Building's bookkeeping around getStatistics, with the passengers served
\* after warm-up held as their number (count is
\* peopleServedAfterWarmup.length); callbacks lists what each call of the
\* registered callback received and how many had been served when it was made
NoCache == [cached |-> FALSE, stats |-> [totalPeopleServed |-> 0]]

NewTracker ==
  [count |-> 0, lastStatsUpdateCount |-> 0, lastEfficiencyCalculation |-> 0,
   cachedStatistics |-> NoCache, callbacks |-> << >>, switches |-> 0,
   resets |-> 0, reads |-> 0, lastRead |-> NoCache.stats, beforeReset |-> NoCache.stats]

\* Building.getStatistics at time t: the cached record when it is less than
\* EFFICIENCY_CALC_INTERVAL old, otherwise computed, the record computed on
\* the building as it is now
getStatisticsCached(tr, t, computed) ==
  IF tr.cachedStatistics.cached
     /\ t - tr.lastEfficiencyCalculation < EfficiencyCalcInterval
  THEN [tr |-> tr, stats |-> tr.cachedStatistics.stats]
  ELSE [tr |-> [tr EXCEPT !.lastEfficiencyCalculation = t,
                          !.cachedStatistics = [cached |-> TRUE, stats |-> computed]],
        stats |-> computed]

invalidateStatisticsCache(tr) == [tr EXCEPT !.cachedStatistics = NoCache]

\* Building.loadPeopleToElevator lines 351-371 for one passenger who boards
\* after warm-up
boardAfterWarmup(tr, t) ==
  LET tr1 == [tr EXCEPT !.count = tr.count + 1]
  IN IF tr1.count % statsUpdateInterval = 0 /\ tr1.count > tr1.lastStatsUpdateCount
     THEN LET tr2 == [tr1 EXCEPT !.lastStatsUpdateCount = tr1.count]
              currentStats == getStatisticsCached(tr2, t, [totalPeopleServed |-> tr2.count])
          IN [currentStats.tr EXCEPT !.callbacks =
                Append(@, [served |-> tr1.count,
                           totalPeopleServed |-> currentStats.stats.totalPeopleServed])]
     ELSE tr1

RECURSIVE boardSeveral(_, _, _)
boardSeveral(tr, k, t) ==
  IF k = 0 THEN tr ELSE boardSeveral(boardAfterWarmup(tr, t), k - 1, t)

\* uiController.updateStats: a read of Building.getStatistics on building w
readStatistics(tr, w, t) ==
  LET r == getStatisticsCached(tr, t, getStatistics(w))
  IN [r.tr EXCEPT !.reads = Min(tr.reads + 1, MaxReads), !.lastRead = r.stats]

NoStats ==
  [input |-> [count |-> 0, totalWaitTime |-> 0, stairsUsedCount |-> 0, onboard |-> 0,
              waiting |-> 0, speed |-> Speed, capacity |-> Capacity,
              floors |-> NumFloors, lanes |-> NumLanes],
   computed |-> FALSE, efficiencyScore |-> 0]

Init ==
  /\ stats = NoStats
  /\ algorithmManager = NewAlgorithmManager
  /\ call = NoCall
  /\ tracker = NewTracker
  /\ applied = NotApplied
  /\ replay = NoReplay
  /\ \E live \in BOOLEAN : b = NewBuilding(0, live)
  /\ now = 0
  /\ frameCounter = 0
  /\ flowRate = HighFlowRate
  /\ isPaused = TRUE
  /\ ticks = 0
  /\ gaps = 0
  /\ settingsChanges = 0

Next ==
  \/ Tick
  \/ Step
  \/ PausedFrames
  \/ Play
  \/ Pause
  \/ \E rate \in FlowRates : UpdateSettings(rate)

Spec == Init /\ [][Next]_vars


\* ---- the efficiency score on its own ----
\* the statistics and configurations getStatistics is applied to: speed and
\* capacity at the ends of their scales, few and many floors and lanes, no
\* to very long average waits, no to very many give-ups
ScoreInputs ==
  {[count |-> count, totalWaitTime |-> avgWait * count,
    stairsUsedCount |-> StairsStep * k, onboard |-> full * capacity * lanes,
    waiting |-> waiting, speed |-> speed, capacity |-> capacity,
    floors |-> floors, lanes |-> lanes] :
     count \in 0 .. MaxServed, avgWait \in {0, 1000, MaxAvgWait},
     k \in 0 .. MaxStairsSteps, full \in {0, 1}, waiting \in {0, 1, MaxWaiting},
     speed \in {1, MaxSpeedSetting}, capacity \in {1, MaxCapacitySetting},
     floors \in 2 .. MaxFloorsSetting, lanes \in 1 .. MaxLanesSetting}

ScoreInit ==
  /\ stats \in {[input |-> s, computed |-> FALSE, efficiencyScore |-> 0] : s \in ScoreInputs}
  /\ algorithmManager = NewAlgorithmManager
  /\ call = NoCall
  /\ tracker = NewTracker
  /\ applied = NotApplied
  /\ replay = NoReplay
  /\ b = NewBuilding(0, TRUE)
  /\ now = 0
  /\ frameCounter = 0
  /\ flowRate = HighFlowRate
  /\ isPaused = TRUE
  /\ ticks = 0
  /\ gaps = 0
  /\ settingsChanges = 0

GetStatistics ==
  /\ ~stats.computed
  /\ stats' = [stats EXCEPT !.computed = TRUE,
                            !.efficiencyScore = efficiencyScore(stats.input)]
  /\ UNCHANGED <<b, now, frameCounter, flowRate, isPaused, ticks, gaps, settingsChanges,
                 algorithmManager, call, replay, applied, tracker>>

ScoreNext == GetStatistics

ScoreSpec == ScoreInit /\ [][ScoreNext]_vars

\* ---- swapping the algorithm while the simulation runs ----
\* the requests a tick made of the dispatcher: an assignment for a spawned
\* passenger, a next floor for an elevator
DecisionsAsked(w1, w2) ==
  (IF Len(w2.people) > Len(w1.people) THEN 1 ELSE 0)
  + Cardinality({e \in Lanes : w2.lastDecision[e] # w1.lastDecision[e]})

\* a frame of the draw loop; ElevatorSystem.assignElevatorToPerson and
\* ElevatorSystem.decideNextFloor hand each request to getCurrentAlgorithm()
SwapTick ==
  /\ ticks < SwapTicks
  /\ SimulationUpdate
  /\ algorithmManager' =
        IF DecisionsAsked(b, b') > 0
        THEN [algorithmManager EXCEPT
                !.answeredBy = getCurrentAlgorithm(algorithmManager),
                !.asked = Min(MaxAsked, algorithmManager.asked + DecisionsAsked(b, b'))]
        ELSE algorithmManager
  /\ UNCHANGED <<flowRate, isPaused, gaps, settingsChanges, stats, call, replay, applied, tracker>>

\* the editor registers a custom algorithm
RegisterAlgorithm(algorithm) ==
  /\ algorithmManager.registrations < MaxRegistrations
  /\ algorithmManager' =
        [registerAlgorithm(algorithmManager, algorithm) EXCEPT
           !.registrations = algorithmManager.registrations + 1]
  /\ UNCHANGED <<b, now, frameCounter, flowRate, isPaused, ticks, gaps, settingsChanges, stats,
                 call, replay, applied, tracker>>

\* ElevatorSystem.setAlgorithm, from the dropdown or the editor
SetAlgorithm(id) ==
  /\ algorithmManager.swaps < MaxSwaps
  /\ algorithmManager' =
        [setCurrentAlgorithm(algorithmManager, id) EXCEPT
           !.swaps = algorithmManager.swaps + 1]
  /\ UNCHANGED <<b, now, frameCounter, flowRate, isPaused, ticks, gaps, settingsChanges, stats,
                 call, replay, applied, tracker>>

SwapNext ==
  \/ SwapTick
  \/ \E algorithm \in Algorithms : RegisterAlgorithm(algorithm)
  \/ \E id \in AlgorithmNames : SetAlgorithm(id)

SwapSpec == Init /\ [][SwapNext]_vars

\* ---- an algorithm that writes to what it was handed ----
\* a frame of the draw loop, between decision calls
SnapshotTick ==
  /\ ~call.active
  /\ ticks < SnapshotTicks
  /\ SimulationUpdate
  /\ UNCHANGED <<flowRate, isPaused, gaps, settingsChanges, stats, algorithmManager, call, replay,
                 applied, tracker>>

\* ElevatorSystem.assignElevatorToPerson / decideNextFloor up to the call of
\* the algorithm: the ElevatorData of every elevator and the floor stats
HandSnapshots ==
  /\ ~call.active
  /\ call.calls < MaxCalls
  /\ call' = [active |-> TRUE, elevators |-> getBuildingData(b),
              floorStats |-> getFloorStats(b), mutations |-> 0, calls |-> call.calls]
  /\ UNCHANGED <<b, now, frameCounter, flowRate, isPaused, ticks, gaps, settingsChanges, stats,
                 algorithmManager, replay, applied, tracker>>

\* the algorithm replaces the contents of the floorsToVisit array of an
\* ElevatorData (push, splice, length = 0, sort ...)
MutateFloorsToVisit(e, floors) ==
  /\ call.active
  /\ call.mutations < MaxMutations
  /\ floors # call.elevators[e].floorsToVisit.items
  /\ call' = [call EXCEPT !.elevators[e].floorsToVisit.items = floors,
                          !.mutations = call.mutations + 1]
  /\ b' = IF call.elevators[e].floorsToVisit.shared
          THEN [b EXCEPT !.elevators[e].floorsToVisit = floors]
          ELSE b
  /\ UNCHANGED <<now, frameCounter, flowRate, isPaused, ticks, gaps, settingsChanges, stats,
                 algorithmManager, replay, applied, tracker>>

\* the algorithm empties the waitingPeople array of a FloorStats
MutateWaitingPeople(f) ==
  /\ call.active
  /\ call.mutations < MaxMutations
  /\ call.floorStats[f].waitingPeople.items # << >>
  /\ call' = [call EXCEPT !.floorStats[f].waitingPeople.items = << >>,
                          !.mutations = call.mutations + 1]
  /\ b' = IF call.floorStats[f].waitingPeople.shared
          THEN [b EXCEPT !.waitingPeople[f] = << >>]
          ELSE b
  /\ UNCHANGED <<now, frameCounter, flowRate, isPaused, ticks, gaps, settingsChanges, stats,
                 algorithmManager, replay, applied, tracker>>

\* the algorithm overwrites the currentFloor and state of an ElevatorData, a
\* new object holding copies of the elevator's values
MutateElevatorData(e, floor) ==
  /\ call.active
  /\ call.mutations < MaxMutations
  /\ floor # call.elevators[e].currentFloor
  /\ call' = [call EXCEPT !.elevators[e].currentFloor = floor,
                          !.elevators[e].state = "REPAIR",
                          !.mutations = call.mutations + 1]
  /\ UNCHANGED <<b, now, frameCounter, flowRate, isPaused, ticks, gaps, settingsChanges, stats,
                 algorithmManager, replay, applied, tracker>>

\* the algorithm returns; the snapshots are dropped
DecisionReturns ==
  /\ call.active
  /\ call' = Returned(call.calls + 1)
  /\ UNCHANGED <<b, now, frameCounter, flowRate, isPaused, ticks, gaps, settingsChanges, stats,
                 algorithmManager, replay, applied, tracker>>

SnapshotNext ==
  \/ SnapshotTick
  \/ HandSnapshots
  \/ \E e \in Lanes, floors \in SUBSET Floors : MutateFloorsToVisit(e, floors)
  \/ \E f \in Floors : MutateWaitingPeople(f)
  \/ \E e \in Lanes, floor \in Floors : MutateElevatorData(e, floor)
  \/ DecisionReturns

SnapshotSpec == Init /\ [][SnapshotNext]_vars

\* ---- two runs from one seed ----
ReproInit ==
  /\ stats = NoStats
  /\ algorithmManager = NewAlgorithmManager
  /\ call = NoCall
  /\ tracker = NewTracker
  /\ applied = NotApplied
  /\ replay \in {NewReplay(seed) : seed \in Seeds}
  /\ b = NewBuilding(0, TRUE)
  /\ now = 0
  /\ frameCounter = 0
  /\ flowRate = HighFlowRate
  /\ isPaused = FALSE
  /\ ticks = 0
  /\ gaps = 0
  /\ settingsChanges = 0

\* one Simulation.update in each of the two runs, frame by frame at the
\* same pace; the runs have the same algorithm, which answers equal
\* requests equally. The runs are followed for as long as they agree.
ReproTick ==
  LET t == now + FrameMs
      fc == frameCounter + 1
      fcOther == replay.other.frameCounter + 1
      draw == spawnFloor(replay.seed)
      drawOther == spawnFloor(replay.other.seed)
      seedAfter == IF spawnDue(fc, flowRate) THEN draw.seed ELSE replay.seed
  IN /\ replay.active
     /\ ticks < ReproTicks
     /\ replay.other.b = b
     /\ spawnDue(fc, flowRate) => Len(b.people) < MaxPeople
     /\ now' = t
     /\ ticks' = ticks + 1
     /\ \E b1 \in BuildingUpdate([b EXCEPT !.threw = FALSE], t) :
          /\ IF spawnDue(fc, flowRate)
             THEN /\ frameCounter' = 0
                  /\ \E giveUpThreshold \in pRandomThresholds, raw \in AssignOutputs :
                       \E targetFloor \in TargetFloors(draw.floor) :
                          b' = BuildingAddPerson(b1, draw.floor, targetFloor,
                                                 giveUpThreshold, raw, t)
             ELSE /\ frameCounter' = fc
                  /\ b' = b1
          /\ IF spawnDue(fcOther, flowRate)
             THEN \E giveUpThreshold \in pRandomThresholds, raw \in AssignOutputs :
                    \E targetFloor \in TargetFloors(drawOther.floor) :
                       LET added == BuildingAddPerson(b1, drawOther.floor, targetFloor,
                                                      giveUpThreshold, raw, t)
                       IN /\ (/\ Len(b'.people) = Len(added.people)
                              /\ b'.people[Len(b'.people)].startFloor = drawOther.floor
                              /\ b'.people[Len(b'.people)].destinationFloor = targetFloor)
                             => (/\ b'.people[Len(b'.people)].assignedElevator
                                      = added.people[Len(added.people)].assignedElevator
                                 /\ b'.threw = added.threw)
                          /\ replay' = [replay EXCEPT
                                          !.seed = seedAfter,
                                          !.other = [b |-> added, frameCounter |-> 0,
                                                     seed |-> drawOther.seed]]
             ELSE replay' = [replay EXCEPT
                               !.seed = seedAfter,
                               !.other = [b |-> b1, frameCounter |-> fcOther,
                                          seed |-> replay.other.seed]]
     /\ UNCHANGED <<flowRate, isPaused, gaps, settingsChanges, stats, algorithmManager, call, applied,
                 tracker>>

ReproNext == ReproTick

ReproSpec == ReproInit /\ [][ReproNext]_vars

\* ---- the SCAN strategies on their own ----
ScanFloors == 0 .. (MaxScanFloors - 1)

\* arrays of distinct floors, in any order (the order stops were added in)
StopLists ==
  {stops \in UNION {[1 .. n -> ScanFloors] : n \in 0 .. MaxStops} :
     \A i, j \in DOMAIN stops : i # j => stops[i] # stops[j]}

ScanInputs ==
  {[currentFloor |-> floor, direction |-> direction, floorsToVisit |-> stops] :
     floor \in ScanFloors, direction \in {-1, 0, 1}, stops \in StopLists}

AuxInit ==
  /\ stats = NoStats
  /\ algorithmManager = NewAlgorithmManager
  /\ call = NoCall
  /\ tracker = NewTracker
  /\ replay = NoReplay
  /\ b = NewBuilding(0, TRUE)
  /\ now = 0
  /\ frameCounter = 0
  /\ flowRate = HighFlowRate
  /\ isPaused = TRUE
  /\ ticks = 0
  /\ gaps = 0
  /\ settingsChanges = 0

ScanInit ==
  /\ AuxInit
  /\ applied \in {[function |-> "decideNextFloor", computed |-> FALSE, input |-> elevator,
                   output |-> << >>] : elevator \in ScanInputs}

DecideNextFloor ==
  /\ applied.function = "decideNextFloor"
  /\ ~applied.computed
  /\ applied' = [applied EXCEPT
                   !.computed = TRUE,
                   !.output = [scan |-> SCANDecideNextFloor(applied.input),
                               simple6 |-> Simple6DecideNextFloor(applied.input),
                               player |-> SimplePlayerDecideNextFloor(applied.input)]]
  /\ UNCHANGED <<b, now, frameCounter, flowRate, isPaused, ticks, gaps, settingsChanges, stats,
                 algorithmManager, call, replay, tracker>>

ScanNext == DecideNextFloor

ScanSpec == ScanInit /\ [][ScanNext]_vars

\* ---- the load-balancing assignment on its own ----
\* the passenger counts of one to MaxElevators elevators
BalanceInputs ==
  UNION {[1 .. n -> 0 .. MaxPassengers] : n \in 1 .. MaxElevators}

BalanceInit ==
  /\ AuxInit
  /\ applied \in {[function |-> "assignElevatorToPerson", computed |-> FALSE,
                   input |-> passengers, output |-> << >>] : passengers \in BalanceInputs}

AssignElevatorToPerson ==
  /\ applied.function = "assignElevatorToPerson"
  /\ ~applied.computed
  /\ applied' = [applied EXCEPT !.computed = TRUE,
                                !.output = Simple3Assign(applied.input)]
  /\ UNCHANGED <<b, now, frameCounter, flowRate, isPaused, ticks, gaps, settingsChanges, stats,
                 algorithmManager, call, replay, tracker>>

BalanceNext == AssignElevatorToPerson

BalanceSpec == BalanceInit /\ [][BalanceNext]_vars

\* ---- a breakdown and the repair after it ----
\* the step button, and frames while playing after a step that threw
RepairStep ==
  /\ ticks < RepairTicks
  /\ Step

RepairTick ==
  /\ ticks < RepairTicks
  /\ Tick

\* the simulation left paused for a while, more than once
RepairPausedFrames ==
  /\ isPaused
  /\ gaps < RepairGaps
  /\ gaps' = gaps + 1
  /\ now' = now + GapMs
  /\ UNCHANGED <<b, frameCounter, flowRate, isPaused, ticks, settingsChanges>>
  /\ UNCHANGED auxVars

RepairNext ==
  \/ RepairStep
  \/ RepairTick
  \/ RepairPausedFrames

RepairSpec == Init /\ [][RepairNext]_vars

\* ---- the statistics callback while the simulation runs ----
\* the frames of this specification come after the warm-up period
StatsInit ==
  /\ stats = NoStats
  /\ algorithmManager = NewAlgorithmManager
  /\ call = NoCall
  /\ applied = NotApplied
  /\ replay = NoReplay
  /\ tracker = NewTracker
  /\ b = NewBuilding(0, TRUE)
  /\ now = WarmupPeriod * 1000 + FrameMs
  /\ frameCounter = 0
  /\ flowRate = HighFlowRate
  /\ isPaused = FALSE
  /\ ticks = 0
  /\ gaps = 0
  /\ settingsChanges = 0

\* a frame of p.draw: Simulation.update, in which boarded passengers board
\* and then, when spawns, a passenger is added (addPerson invalidates the
\* cache), followed by uiController.updateStats, which reads getStatistics
StatsFrame(boarded, spawns) ==
  LET t == now + FrameMs
      tr1 == boardSeveral(tracker, boarded, t)
      tr2 == IF spawns THEN invalidateStatisticsCache(tr1) ELSE tr1
  IN /\ ticks < StatsFrames
     /\ ticks' = ticks + 1
     /\ now' = t
     /\ tracker' = getStatisticsCached(tr2, t, [totalPeopleServed |-> tr2.count]).tr
     /\ UNCHANGED <<b, frameCounter, flowRate, isPaused, gaps, settingsChanges, stats,
                    algorithmManager, call, replay, applied>>

\* Simulation.switchAlgorithm lines 295-299 after a successful switch
StatsSwitchAlgorithm ==
  /\ tracker.switches < MaxSwaps
  /\ tracker' = [tracker EXCEPT !.lastStatsUpdateCount = 0,
                                !.switches = tracker.switches + 1]
  /\ UNCHANGED <<b, now, frameCounter, flowRate, isPaused, ticks, gaps, settingsChanges,
                 stats, algorithmManager, call, replay, applied>>

StatsNext ==
  \/ \E boarded \in 0 .. MaxBoardings, spawns \in BOOLEAN : StatsFrame(boarded, spawns)
  \/ StatsSwitchAlgorithm

StatsSpec == StatsInit /\ [][StatsNext]_vars

\* ---- resetting the simulation ----
\* a frame of p.draw while playing: Simulation.update, then
\* uiController.updateStats; Building.addPerson invalidates the cache
ResetFrame ==
  /\ ~isPaused
  /\ ticks < ResetTicks
  /\ SimulationUpdate
  /\ tracker' = readStatistics(IF Len(b'.people) > Len(b.people)
                               THEN invalidateStatisticsCache(tracker) ELSE tracker,
                               b', now')
  /\ UNCHANGED <<flowRate, isPaused, gaps, settingsChanges, stats, algorithmManager,
                 call, replay, applied>>

\* frames of p.draw while paused, the next one at once or for a while:
\* Simulation.update returns, uiController.updateStats reads the statistics
ResetPausedFrames(delay) ==
  /\ isPaused
  /\ delay > 0 => gaps < ResetGaps
  /\ gaps' = IF delay > 0 THEN gaps + 1 ELSE gaps
  /\ now' = now + delay
  /\ tracker' = readStatistics(tracker, b, now')
  /\ UNCHANGED <<b, frameCounter, flowRate, isPaused, ticks, settingsChanges, stats,
                 algorithmManager, call, replay, applied>>

\* a reset that keeps the statistics fields of the building it replaces
SimulationResetKeepsCache ==
  /\ tracker.resets < MaxResets
  /\ b' = NewBuilding(now, b.repairCheckLive)
  /\ frameCounter' = 0
  /\ tracker' = [tracker EXCEPT !.resets = tracker.resets + 1, !.reads = 0,
                                !.beforeReset = getStatistics(b)]
  /\ algorithmManager' = EmptyAlgorithmManager
  /\ UNCHANGED <<now, flowRate, isPaused, ticks, gaps, settingsChanges, stats,
                 call, replay, applied>>

\* Simulation.reset up to its await: a new Building, with its own statistics
\* fields and its own, empty AlgorithmManager, takes the place of the old one
SimulationReset ==
  /\ tracker.resets < MaxResets
  /\ b' = NewBuilding(now, b.repairCheckLive)
  /\ frameCounter' = 0
  /\ tracker' = [NewTracker EXCEPT !.resets = tracker.resets + 1,
                                   !.beforeReset = getStatistics(b)]
  /\ algorithmManager' = EmptyAlgorithmManager
  /\ UNCHANGED <<now, flowRate, isPaused, ticks, gaps, settingsChanges, stats,
                 call, replay, applied>>

\* the rest of Simulation.initAlgorithms and of Simulation.reset, run when
\* the promise of reg() resolves
InitAlgorithms ==
  /\ getCurrentAlgorithm(algorithmManager) = NoAlgorithm
  /\ algorithmManager' = registerAll(algorithmManager)
  /\ UNCHANGED <<b, now, frameCounter, flowRate, isPaused, ticks, gaps, settingsChanges,
                 stats, call, replay, applied, tracker>>

ResetNext ==
  \/ ResetFrame
  \/ \E delay \in {0, GapMs} : ResetPausedFrames(delay)
  \/ Play
  \/ Pause
  \/ SimulationReset
  \/ InitAlgorithms

ResetSpec == Init /\ [][ResetNext]_vars

\* ---- ticks while the algorithms are being registered ----
\* the Simulation constructor has returned, the promise of reg() is pending
ReadyInit ==
  /\ stats = NoStats
  /\ algorithmManager = EmptyAlgorithmManager
  /\ call = NoCall
  /\ applied = NotApplied
  /\ replay = NoReplay
  /\ tracker = NewTracker
  /\ \E live \in BOOLEAN : b = NewBuilding(0, live)
  /\ now = 0
  /\ frameCounter = 0
  /\ flowRate = HighFlowRate
  /\ isPaused = TRUE
  /\ ticks = 0
  /\ gaps = 0
  /\ settingsChanges = 0

\* AlgorithmManager.getCurrentAlgorithm throws while there is no current
\* algorithm: the assignment of a spawned passenger throws out of the tick,
\* and ElevatorSystem.decideNextFloor catches and answers the current floor
AnsweredByCurrentAlgorithm ==
  getCurrentAlgorithm(algorithmManager) = NoAlgorithm =>
    /\ Len(b'.people) > Len(b.people) =>
         /\ b'.threw
         /\ b'.people[Len(b'.people)].assignedElevator = Num(-1)
    /\ \A e \in Lanes :
         b'.lastDecision[e] # b.lastDecision[e] => ~b'.lastDecision[e].valid

ReadyTick ==
  /\ ticks < ReadyTicks
  /\ Tick
  /\ AnsweredByCurrentAlgorithm

ReadyStep ==
  /\ ticks < ReadyTicks
  /\ Step
  /\ AnsweredByCurrentAlgorithm

ReadyNext ==
  \/ ReadyTick
  \/ ReadyStep
  \/ Play
  \/ Pause
  \/ SimulationReset
  \/ InitAlgorithms

ReadySpec == ReadyInit /\ [][ReadyNext]_vars

\* ---- a shipped strategy, and arrivals that stop ----
\* what the Default and the Simple Player strategy answer in a tick: an
\* elevator index for a spawned passenger, and for an IDLE elevator that
\* asks, a floor of its floorsToVisit other than the floor it stands at
ShippedAnswers ==
  /\ ~b'.threw
  /\ Len(b'.people) > Len(b.people) =>
       b'.people[Len(b'.people)].assignedElevator \in {Num(e) : e \in Lanes}
  /\ \A e \in Lanes :
       b.elevators[e].state = "IDLE" =>
         /\ isMoving(b'.elevators[e]) =>
              b'.elevators[e].targetFloor \in b.elevators[e].floorsToVisit
         /\ b'.elevators[e].state = "LOADING" =>
              b.elevators[e].currentFloor \in b.elevators[e].floorsToVisit

QuietTick ==
  /\ ticks < QuietTicks
  /\ Tick
  /\ ShippedAnswers

QuietStep ==
  /\ ticks < QuietTicks
  /\ Step
  /\ ShippedAnswers

\* Simulation.updateSettings with peopleFlowRate 0: peopleSpawnRate is
\* 60 / 0 = Infinity, which frameCounter never reaches
StopArrivals ==
  /\ flowRate # 0
  /\ flowRate' = 0
  /\ UNCHANGED <<b, now, frameCounter, isPaused, ticks, gaps, settingsChanges>>
  /\ UNCHANGED auxVars

QuietNext ==
  \/ QuietTick
  \/ QuietStep
  \/ RepairPausedFrames
  \/ Play
  \/ Pause
  \/ StopArrivals

QuietSpec == Init /\ [][QuietNext]_vars



\* ---- passenger bookkeeping used by the properties ----
PersonIds(w) == 1 .. Len(w.people)

QueuePositions(w, id) ==
  UNION {{<<f, i>> : i \in {j \in DOMAIN w.waitingPeople[f] : w.waitingPeople[f][j] = id}}
         : f \in Floors}

OnboardPositions(w, id) ==
  UNION {{<<e, i>> : i \in {j \in DOMAIN w.elevators[e].people : w.elevators[e].people[j] = id}}
         : e \in Lanes}

IsWaiting(w, id) == QueuePositions(w, id) # {}
IsOnboard(w, id) == OnboardPositions(w, id) # {}
IsServed(w, id) == id \in w.completed
HasGivenUp(w, id) == w.people[id].hasGivenUp
HasBoarded(w, id) == IsOnboard(w, id) \/ IsServed(w, id)

\* C1: in every reachable state every elevator carries at most Capacity
\* passengers (Elevator.addPerson admits only below capacity and is the only
\* operation that adds passengers).
CapacityRespected ==
  \A e \in Lanes : Len(b.elevators[e].people) <= Capacity

\* a full elevator loading at a floor where a passenger assigned to it, who
\* arrived in an earlier tick, is still queued: addPerson turned it away
FullElevatorTurnsAway ==
  \E e \in Lanes : \E id \in PersonIds(b) :
    /\ b.elevators[e].state = "LOADING"
    /\ Len(b.elevators[e].people) = Capacity
    /\ <<b.elevators[e].currentFloor, 1>> \in QueuePositions(b, id)
    /\ isAssignedTo(b.people[id], e)
    /\ b.people[id].waitStartTime < now

\* C2: every spawned passenger is in exactly one of: waiting in the queue of
\* its origin floor (once), onboard one elevator (once), served, given up.
ExclusivePassengerState ==
  \A id \in PersonIds(b) :
    /\ Cardinality(QueuePositions(b, id)) + Cardinality(OnboardPositions(b, id))
         + (IF IsServed(b, id) THEN 1 ELSE 0)
         + (IF HasGivenUp(b, id) THEN 1 ELSE 0) = 1
    /\ \A q \in QueuePositions(b, id) : q[1] = b.people[id].startFloor

\* one passenger served while another has given up
ServedAndGivenUp ==
  \E id1, id2 \in PersonIds(b) : IsServed(b, id1) /\ HasGivenUp(b, id2)

\* C3: an elevator in REPAIR carries nobody (entering REPAIR evacuates every
\* onboard passenger, whatever the destinations).
RepairEvacuatesAll ==
  \A e \in Lanes : b.elevators[e].state = "REPAIR" => b.elevators[e].people = << >>

\* C4: an elevator in REPAIR has an empty floorsToVisit.
RepairHasNothingToVisit ==
  \A e \in Lanes : b.elevators[e].state = "REPAIR" => b.elevators[e].floorsToVisit = {}


\* C6: every spawned passenger records an assigned elevator that is an index
\* of the roster (the dispatcher hands Building.addPerson a valid index
\* whatever the algorithm returned).
AssignedElevatorValid ==
  \A id \in PersonIds(b) : IsValidNumber(b.people[id].assignedElevator, NumLanes)

\* C7: ElevatorSystem.decideNextFloor answers a floor of the building for
\* every elevator and every algorithm output, and the elevator's current
\* floor when the output is invalid or the algorithm throws; the answers
\* actually given, and the targets the elevators took from them, obey it too.
DecisionInRange ==
  \A e \in Lanes :
    /\ \A raw \in DecideOutputs :
         /\ decideNextFloor(b.elevators[e], raw) \in Floors
         /\ ~IsValidNumber(raw, getTotalFloors)
              => decideNextFloor(b.elevators[e], raw) = b.elevators[e].currentFloor
    /\ b.lastDecision[e].asked =>
         /\ b.lastDecision[e].floor \in Floors
         /\ ~b.lastDecision[e].valid => b.lastDecision[e].floor = b.lastDecision[e].at
    /\ b.elevators[e].targetFloor \in Floors

\* an elevator away from the ground floor got an invalid answer and stayed
InvalidDecisionReplaced ==
  \E e \in Lanes :
    /\ b.lastDecision[e].asked
    /\ ~b.lastDecision[e].valid
    /\ b.lastDecision[e].at > 0
    /\ b.elevators[e].currentFloor = b.lastDecision[e].at
    /\ b.elevators[e].state = "LOADING"

\* C8: no Simulation.update is cut short by an exception.
TickCompletes == ~b.threw

\* C9 as claimed: a queued passenger whose wait exceeds its give-up threshold
\* when a tick runs is out of the queue and counted as given up after that
\* tick.
GivesUpOnNextTick ==
  [][\A id \in PersonIds(b) :
       (/\ ticks' = ticks + 1
        /\ IsWaiting(b, id)
        /\ now' - b.people[id].waitStartTime > b.people[id].giveUpThreshold)
       => (HasGivenUp(b', id) /\ ~IsWaiting(b', id))]_vars

\* C9 as amended: a queued passenger whose wait exceeds its threshold when a
\* tick runs, and who does not board in that tick, is removed from the queue
\* in that tick; a passenger who has given up stays given up, is never queued
\* or boarded again; no queued passenger has a wait timer over its threshold;
\* the give-up counter equals the number of passengers that have given up.
GivesUpUnlessBoarded ==
  [][/\ \A id \in PersonIds(b) :
          /\ (/\ ticks' = ticks + 1
              /\ IsWaiting(b, id)
              /\ now' - b.people[id].waitStartTime > b.people[id].giveUpThreshold
              /\ ~HasBoarded(b', id))
             => (HasGivenUp(b', id) /\ ~IsWaiting(b', id))
          /\ HasGivenUp(b, id)
             => (HasGivenUp(b', id) /\ ~IsWaiting(b', id) /\ ~HasBoarded(b', id))
     /\ \A id \in PersonIds(b') :
          IsWaiting(b', id) =>
            /\ ~HasGivenUp(b', id)
            /\ b'.people[id].waitingTime <= b'.people[id].giveUpThreshold
     /\ b'.stairsUsedCount = Cardinality({id \in PersonIds(b') : HasGivenUp(b', id)})
    ]_vars

\* one passenger has given up while another, who arrived later, still waits
GaveUpWhileOtherWaits ==
  \E id1, id2 \in PersonIds(b) :
    /\ HasGivenUp(b, id1)
    /\ b.stairsUsedCount = 1
    /\ IsWaiting(b, id2)
    /\ b.people[id2].waitingTime > 0

\* C10: the wait time recorded at boarding is the time waited up to that
\* instant (more than 0), and it never changes afterwards.
WaitFrozenAtBoarding ==
  [][\A id \in PersonIds(b) :
       /\ (~HasBoarded(b, id) /\ HasBoarded(b', id))
          => /\ b'.people[id].waitingTime = now' - b.people[id].waitStartTime
             /\ b'.people[id].waitingTime > 0
       /\ HasBoarded(b, id)
          => b'.people[id].waitingTime = b.people[id].waitingTime]_vars

\* a passenger served after a ride still shows the wait recorded at boarding
ServedWithFrozenWait ==
  \E id \in PersonIds(b) :
    /\ IsServed(b, id)
    /\ b.people[id].journeyTime > 0
    /\ b.people[id].waitingTime = b.people[id].journeyStartTime - b.people[id].waitStartTime
    /\ now > b.people[id].journeyStartTime + b.people[id].journeyTime


\* C11: a tick that finds an elevator in MOVING_UP or MOVING_DOWN toward a
\* target floor inside the building, other than its current floor, leaves it
\* either in the same state strictly nearer the target, or LOADING exactly
\* on the target floor (position equal to the floor's, no overshoot), or in
\* REPAIR; a tick that does not change its position puts it in REPAIR.
MovingMakesProgress ==
  [][\A e \in Lanes :
       LET el == b.elevators[e]
           el2 == b'.elevators[e]
           targetY == FloorY(el.targetFloor)
       IN (/\ ticks' = ticks + 1
           /\ isMoving(el)
           /\ el.targetFloor \in Floors
           /\ el.targetFloor # el.currentFloor)
          => /\ \/ /\ el2.state = el.state
                   /\ el2.targetFloor = el.targetFloor
                   /\ Abs(el2.y - targetY) < Abs(el.y - targetY)
                   /\ (el2.y - targetY) * (el.y - targetY) > 0
                \/ /\ el2.state = "LOADING"
                   /\ el2.currentFloor = el.targetFloor
                   /\ el2.y = targetY
                \/ el2.state = "REPAIR"
             /\ el2.y = el.y => el2.state = "REPAIR"]_vars

\* an elevator has just arrived on a floor whose distance from the ground
\* floor is no multiple of its speed: the last stretch was cut short
ArrivedAfterShortStretch ==
  \E e \in Lanes :
    /\ b.elevators[e].state = "LOADING"
    /\ b.elevators[e].currentFloor > 0
    /\ b.elevators[e].y = FloorY(b.elevators[e].currentFloor)
    /\ b.elevators[e].stateStartTime = now
    /\ (FloorHeight * b.elevators[e].currentFloor) % Speed # 0

\* C12: every spawned passenger has an origin floor and a destination floor
\* in [0, floors-1], the two differ, a passenger from floor 0 goes up and a
\* passenger from the top floor goes down.
SpawnedFloorsValid ==
  \A id \in PersonIds(b) :
    LET origin == b.people[id].startFloor
        destination == b.people[id].destinationFloor
    IN /\ origin \in Floors
       /\ destination \in Floors
       /\ destination # origin
       /\ origin = 0 => destination > 0
       /\ origin = NumFloors - 1 => destination < NumFloors - 1

\* one passenger spawned on the ground floor and one on the top floor, the
\* latter bound for a floor other than the ground floor
SpawnedAtBothEnds ==
  \E id1, id2 \in PersonIds(b) :
    /\ b.people[id1].startFloor = 0
    /\ b.people[id2].startFloor = NumFloors - 1
    /\ b.people[id2].destinationFloor > 0

\* positions inside the shaft, from the top floor's to the ground floor's
ShaftPositions == FloorY(NumFloors - 1) .. FloorY(0)

ServedAfterUnload ==
  \A id \in PersonIds(b) :
    id \in SeqToSet(b.peopleServedAfterWarmup) => IsServed(b, id)

\* C15: the efficiency score is 0 as long as no passenger has been served
\* (unloaded at its destination) after the warm-up.
ScoreZeroUntilServed ==
  (\A id \in PersonIds(b) : ~IsServed(b, id)) => getStatistics(b).efficiencyScore = 0

\* C16: when the average wait and the give-up count are so large that their
\* penalties are at their caps (500 and 300), the efficiency score is 0.
ScoreZeroAtCaps ==
  (/\ stats.computed
   /\ stats.input.count > 0
   /\ stats.input.totalWaitTime * 15 >= 500 * 1000 * stats.input.count
   /\ stats.input.stairsUsedCount * 10 >= 300)
  => stats.efficiencyScore = 0

\* C18: from the moment setAlgorithm(id) has returned true, every decision
\* request is answered by the algorithm that was registered under id (until
\* the next successful swap), the very next one included; a swap leaves the
\* building, and so every decision already applied to an elevator, as it is.
SwapIsAtomic ==
  [][/\ (/\ \/ algorithmManager'.asked > algorithmManager.asked
             \/ algorithmManager'.answeredBy # algorithmManager.answeredBy
          /\ algorithmManager.entry.algorithm # NoAlgorithm)
         => algorithmManager'.answeredBy = algorithmManager.entry.algorithm
     /\ algorithmManager'.swaps > algorithmManager.swaps
         => /\ b' = b
            /\ algorithmManager'.answeredBy = algorithmManager.answeredBy
            /\ algorithmManager'.returned
                => /\ algorithmManager'.entry.id = algorithmManager'.currentAlgorithmId
                   /\ Find(algorithmManager.algorithms, algorithmManager'.entry.id) # {}]_vars

\* after a successful swap to another algorithm, an applied decision stands
\* and a new request has been answered by the algorithm swapped to
AnsweredAfterSwap ==
  /\ algorithmManager.swaps > 0
  /\ algorithmManager.returned
  /\ algorithmManager.entry.algorithm # BuiltIn("player")
  /\ algorithmManager.answeredBy = algorithmManager.entry.algorithm
  /\ algorithmManager.asked >= 2
  /\ \E e \in Lanes : b.lastDecision[e].asked

\* C19: from the moment the snapshots are handed to the algorithm until it
\* returns, whatever the algorithm writes into them, every elevator keeps
\* its floorsToVisit, onboard list, state and current floor and every floor
\* keeps its queue.
SnapshotsAreCopies ==
  [][call.active =>
       /\ \A e \in Lanes :
            /\ b'.elevators[e].floorsToVisit = b.elevators[e].floorsToVisit
            /\ b'.elevators[e].people = b.elevators[e].people
            /\ b'.elevators[e].state = b.elevators[e].state
            /\ b'.elevators[e].currentFloor = b.elevators[e].currentFloor
       /\ \A f \in Floors : b'.waitingPeople[f] = b.waitingPeople[f]]_vars

\* during a call the algorithm has overwritten the floorsToVisit array of
\* an elevator with stops and emptied the waitingPeople array of a floor
\* where someone waits
SnapshotOverwritten ==
  /\ call.active
  /\ \E e \in Lanes :
       /\ b.elevators[e].floorsToVisit # {}
       /\ call.elevators[e].floorsToVisit.items # b.elevators[e].floorsToVisit
  /\ \E f \in Floors :
       /\ b.waitingPeople[f] # << >>
       /\ call.floorStats[f].waitingPeople.items = << >>

\* C20: two runs started with the same seed, settings and algorithm and
\* advanced by the same number of ticks have spawned the same passengers
\* (same tick, origin floor, destination floor and give-up threshold) and
\* have the same elevator and queue states.
RunsReproducible ==
  replay.active =>
    /\ Len(replay.other.b.people) = Len(b.people)
    /\ \A id \in PersonIds(b) :
         /\ replay.other.b.people[id].waitStartTime = b.people[id].waitStartTime
         /\ replay.other.b.people[id].startFloor = b.people[id].startFloor
         /\ replay.other.b.people[id].destinationFloor = b.people[id].destinationFloor
         /\ replay.other.b.people[id].giveUpThreshold = b.people[id].giveUpThreshold
    /\ replay.other.b.elevators = b.elevators
    /\ replay.other.b.waitingPeople = b.waitingPeople

\* C21: at every tick boundary a floor's call button is pressed exactly when
\* somebody waits on that floor.
ButtonMatchesQueue ==
  \A f \in Floors : b.floorButtonPressed[f] <=> (b.waitingPeople[f] # << >>)

\* the floors of a stop list ahead of the elevator in its direction
FloorsAhead(elevator) ==
  {floor \in SeqToSet(elevator.floorsToVisit) :
     IF elevator.direction > 0 THEN floor > elevator.currentFloor
     ELSE floor < elevator.currentFloor}

\* the answer is the nearest stop ahead when there is one, and a stop behind
\* only when there is none ahead
ContinuesAhead(elevator, answer) ==
  elevator.direction # 0 =>
    /\ FloorsAhead(elevator) # {}
       => /\ answer \in FloorsAhead(elevator)
          /\ \A floor \in FloorsAhead(elevator) :
               Abs(answer - elevator.currentFloor) <= Abs(floor - elevator.currentFloor)
    /\ (IF elevator.direction > 0 THEN answer < elevator.currentFloor
        ELSE answer > elevator.currentFloor)
       => FloorsAhead(elevator) = {}

AssignsLeastOccupied ==
  (applied.function = "assignElevatorToPerson" /\ applied.computed) =>
    /\ applied.output + 1 \in DOMAIN applied.input
    /\ \A i \in DOMAIN applied.input :
         applied.input[applied.output + 1] <= applied.input[i]

\* the state changes one tick may make
AllowedEdges ==
  {<<"IDLE", "LOADING">>, <<"IDLE", "MOVING_UP">>, <<"IDLE", "MOVING_DOWN">>,
   <<"MOVING_UP", "LOADING">>, <<"MOVING_DOWN", "LOADING">>, <<"LOADING", "IDLE">>,
   <<"REPAIR", "IDLE">>}
  \cup {<<state, "REPAIR">> : state \in {"IDLE", "MOVING_UP", "MOVING_DOWN", "LOADING"}}

\* C24: within one tick an elevator's state changes only along the edges
\* IDLE to LOADING or MOVING, MOVING to LOADING, LOADING to IDLE, any state
\* but REPAIR to REPAIR, and REPAIR to IDLE.
StateEdgesAllowed ==
  [][\A e \in Lanes :
       \/ b'.elevators[e].state = b.elevators[e].state
       \/ <<b.elevators[e].state, b'.elevators[e].state>> \in AllowedEdges]_vars

\* an elevator that went up, loaded and became idle has just set off
\* downwards
SetOffDownAfterLoading ==
  \E e \in Lanes :
    /\ b.elevators[e].state = "MOVING_DOWN"
    /\ b.elevators[e].stateStartTime = now
    /\ b.elevators[e].currentFloor > 0

\* C25: an update of an idle elevator with nothing to visit leaves it idle
\* with position, current floor and floorsToVisit as they were, and an
\* update of an idle elevator whose floorsToVisit holds its current floor
\* takes it straight to LOADING; neither asks for a decision.
IdleStaysOrLoads ==
  \A e \in Lanes :
    b.elevators[e].state = "IDLE" =>
      \A b2 \in ElevatorUpdate(b, e, now + FrameMs) :
        /\ b.elevators[e].floorsToVisit = {}
           => /\ b2.elevators[e].state = "IDLE"
              /\ b2.elevators[e].y = b.elevators[e].y
              /\ b2.elevators[e].currentFloor = b.elevators[e].currentFloor
              /\ b2.elevators[e].floorsToVisit = {}
              /\ b2.lastDecision[e] = b.lastDecision[e]
        /\ b.elevators[e].currentFloor \in b.elevators[e].floorsToVisit
           => /\ b2.elevators[e].state = "LOADING"
              /\ b2.elevators[e].currentFloor = b.elevators[e].currentFloor
              /\ b2.lastDecision[e] = b.lastDecision[e]

\* an elevator called on the floor it stood idle on has gone to LOADING
\* without ever having been given a decision, while the other stays idle
\* with nothing to visit
LoadsWhereItStood ==
  \E e, other \in Lanes :
    /\ b.elevators[e].state = "LOADING"
    /\ b.elevators[e].stateStartTime = now
    /\ ~b.lastDecision[e].asked
    /\ b.elevators[e].people # << >>
    /\ b.elevators[other].state = "IDLE"
    /\ b.elevators[other].floorsToVisit = {}
    /\ ticks > 3

\* C26: when an idle elevator asks for its next floor and the answer is
\* invalid (NaN, an exception, outside the building, or its own floor, which
\* is not in floorsToVisit), the update leaves it IDLE with floorsToVisit
\* unchanged.
InvalidDecisionStaysIdle ==
  \A e \in Lanes :
    LET t == now + FrameMs
        b3 == positionCheck(idleHistoryRefresh(checkForLogicalErrors(b, e, t), e, t), e, t)
        el == b3.elevators[e]
    IN (b.elevators[e].state = "IDLE" /\ asksNextFloor(el)) =>
         \A raw \in DecideOutputs :
           (~IsValidNumber(raw, getTotalFloors) \/ raw.val = el.currentFloor) =>
             LET b4 == updateIdle(b3, e, t, raw)
             IN /\ b4.elevators[e].state = "IDLE"
                /\ b4.elevators[e].floorsToVisit = el.floorsToVisit

\* C28: at every tick boundary at which an elevator is LOADING, nobody on
\* board has its current floor as destination: arriving passengers are let
\* off in the tick in which the elevator becomes LOADING, before anybody
\* boards.
LoadingCarriesNoArrival ==
  \A e \in Lanes :
    b.elevators[e].state = "LOADING" =>
      \A i \in 1 .. Len(b.elevators[e].people) :
        b.people[b.elevators[e].people[i]].destinationFloor
          # b.elevators[e].currentFloor

\* C29: an elevator in REPAIR stays in REPAIR until the repair duration has
\* passed and then becomes IDLE with its stuck warning cleared; while it is
\* in REPAIR its position and current floor do not change, fault detection
\* does not run (no stuck check, no new breakdown) and nobody boards it.
RepairRunsItsCourse ==
  [][\A e \in Lanes :
       LET el == b.elevators[e]
           el2 == b'.elevators[e]
       IN (el.state = "REPAIR" /\ b' # b) =>
            /\ el2.state = IF now' - el.repairStartTime >= StuckRepair
                           THEN "IDLE" ELSE "REPAIR"
            /\ el2.state = "IDLE" => ~el2.stuckWarning /\ el2.stateStartTime = now'
            /\ el2.y = el.y
            /\ el2.currentFloor = el.currentFloor
            /\ el2.stuckCheckTime = el.stuckCheckTime
            /\ el2.positionHistory = el.positionHistory
            /\ el2.stateHistory = el.stateHistory
            /\ el2.repairStartTime = el.repairStartTime
            /\ el2.people = el.people]_vars

\* an elevator is back in service after a repair: idle since this tick, with
\* no stuck check since it broke down
BackInService ==
  \E e \in Lanes :
    /\ b.elevators[e].state = "IDLE"
    /\ b.elevators[e].stateStartTime = now
    /\ b.elevators[e].repairStartTime > 0
    /\ b.elevators[e].stuckCheckTime <= b.elevators[e].repairStartTime
    /\ now - b.elevators[e].repairStartTime >= StuckRepair

\* C30: a passenger boards in a tick only from the queue of its origin
\* floor, into the elevator it is assigned to, while that elevator is
\* LOADING at that floor and has room, and leaves the queue in the same tick;
\* a queued passenger whose elevator is LOADING at its floor boards unless
\* the elevator is full; a queued passenger who neither boards nor gives up
\* stays in the queue.
BoardsOnlyItsElevator ==
  [][ticks' = ticks + 1 =>
       \A id \in PersonIds(b') :
         /\ (~HasBoarded(b, id) /\ HasBoarded(b', id)) =>
              /\ id \in PersonIds(b)
              /\ IsWaiting(b, id)
              /\ ~IsWaiting(b', id)
              /\ \E e \in Lanes :
                   /\ id \in SeqToSet(b'.elevators[e].people)
                   /\ isAssignedTo(b'.people[id], e)
                   /\ b'.elevators[e].state = "LOADING"
                   /\ b'.elevators[e].currentFloor = b'.people[id].startFloor
                   /\ Len(b'.elevators[e].people) <= Capacity
         /\ \A e \in Lanes :
              (/\ id \in PersonIds(b)
               /\ IsWaiting(b, id)
               /\ isAssignedTo(b.people[id], e)
               /\ b'.elevators[e].state = "LOADING"
               /\ b'.elevators[e].currentFloor = b.people[id].startFloor)
              => \/ id \in SeqToSet(b'.elevators[e].people)
                 \/ Len(b'.elevators[e].people) = Capacity
         /\ (/\ id \in PersonIds(b)
             /\ IsWaiting(b, id)
             /\ ~HasBoarded(b', id)
             /\ ~HasGivenUp(b', id))
            => IsWaiting(b', id)]_vars

\* an elevator is LOADING, full, at a floor where a passenger assigned to it
\* has been waiting through a tick and is still queued
LeftWaitingByFullElevator ==
  \E e \in Lanes, id \in PersonIds(b) :
    /\ IsWaiting(b, id)
    /\ b.people[id].waitingTime > 0
    /\ isAssignedTo(b.people[id], e)
    /\ b.elevators[e].state = "LOADING"
    /\ b.elevators[e].currentFloor = b.people[id].startFloor
    /\ Len(b.elevators[e].people) = Capacity

\* the passenger boarded while the warm-up period had not elapsed
BoardedInWarmup(w, id) ==
  /\ HasBoarded(w, id)
  /\ w.people[id].journeyStartTime - w.warmupStartTime <= WarmupPeriod * 1000

\* C31: the passengers counted by getStatistics, and those whose waits make
\* up its average and its score, are exactly the passengers who boarded
\* after the warm-up period, never one who boarded during it; the warm-up
\* flag is on after a tick exactly while the period has not elapsed, and
\* once off it stays off.
WarmupBoardersExcluded ==
  [][LET post == {id \in PersonIds(b') : HasBoarded(b', id) /\ ~BoardedInWarmup(b', id)}
     IN /\ getStatistics(b').totalPeopleServed = Cardinality(post)
        /\ SeqToSet(b'.peopleServedAfterWarmup) = post
        /\ Len(b'.peopleServedAfterWarmup) = Cardinality(post)
        /\ \A id \in PersonIds(b) :
             BoardedInWarmup(b, id) =>
               /\ BoardedInWarmup(b', id)
               /\ id \notin SeqToSet(b'.peopleServedAfterWarmup)
        /\ ticks' = ticks + 1 =>
             (b'.warmupPhase <=>
                (b.warmupPhase /\ now' - b.warmupStartTime <= WarmupPeriod * 1000))
        /\ ~b.warmupPhase => ~b'.warmupPhase]_vars

\* warm-up is over, one passenger boarded during it and one after it, and
\* the statistics count one passenger
OneCountedOneNot ==
  /\ ~b.warmupPhase
  /\ \E id1, id2 \in PersonIds(b) :
       /\ BoardedInWarmup(b, id1)
       /\ HasBoarded(b, id2)
       /\ ~BoardedInWarmup(b, id2)
  /\ getStatistics(b).totalPeopleServed = 1

SpawnInterval(rate) == (FramesPerFlowUnit + rate - 1) \div rate

\* C33: a tick spawns at most one passenger; the spawn counter goes up by one
\* in every tick that runs and only then, a passenger is spawned exactly in
\* the ticks in which it reaches ceil(60 / flowRate), and it is 0 after a
\* spawn: with the flow rate unchanged, spawns are ceil(60 / flowRate) ticks
\* apart.
SpawnsEveryInterval ==
  [][/\ ticks' = ticks + 1 =>
          LET due == frameCounter + 1 >= SpawnInterval(flowRate)
          IN /\ Len(b'.people) = Len(b.people) + (IF due THEN 1 ELSE 0)
             /\ frameCounter' = IF due THEN 0 ELSE frameCounter + 1
     /\ ticks' = ticks => (frameCounter' = frameCounter /\ Len(b'.people) = Len(b.people))
     /\ (settingsChanges' = 0 /\ frameCounter' < ticks')
          => (ticks' - frameCounter') % SpawnInterval(flowRate') = 0]_vars

\* the second passenger appears one spawn interval of ticks after the first
SecondSpawnOnTime ==
  /\ Len(b.people) = 2
  /\ frameCounter = 0
  /\ settingsChanges = 0
  /\ gaps = 0
  /\ ticks = 2 * SpawnInterval(flowRate)
  /\ b.people[2].waitStartTime - b.people[1].waitStartTime = SpawnInterval(flowRate) * FrameMs

\* C34: the first getStatistics call after a reset reports no passenger
\* served, nobody who gave up, score 0 and warm-up active, however soon it
\* comes; right after the reset every floor queue, every elevator's
\* passenger list and every elevator's floorsToVisit is empty.
ResetClearsStatistics ==
  [][/\ tracker'.resets = tracker.resets + 1 =>
          /\ \A f \in Floors : b'.waitingPeople[f] = << >>
          /\ \A e \in Lanes : /\ b'.elevators[e].people = << >>
                              /\ b'.elevators[e].floorsToVisit = {}
     /\ (tracker'.resets > 0 /\ tracker.reads = 0 /\ tracker'.reads = 1) =>
          /\ tracker'.lastRead.totalPeopleServed = 0
          /\ tracker'.lastRead.peopleWhoGaveUp = 0
          /\ tracker'.lastRead.efficiencyScore = 0
          /\ tracker'.lastRead.warmupActive]_vars

\* the statistics have been read in the very millisecond of a reset that
\* came after warm-up, with a passenger counted as served and one who had
\* given up
ReadRightAfterReset ==
  /\ tracker.resets = 1
  /\ tracker.reads = 1
  /\ now = b.warmupStartTime
  /\ ~tracker.beforeReset.warmupActive
  /\ tracker.beforeReset.totalPeopleServed > 0
  /\ tracker.beforeReset.peopleWhoGaveUp > 0

\* C35: whenever a passenger waits on a floor and is assigned to elevator e,
\* that floor is in e's floorsToVisit or e is LOADING at that floor.
AssignedElevatorRemembers ==
  \A id \in PersonIds(b), e \in Lanes :
    (IsWaiting(b, id) /\ isAssignedTo(b.people[id], e)) =>
      \/ b.people[id].startFloor \in b.elevators[e].floorsToVisit
      \/ /\ b.elevators[e].state = "LOADING"
         /\ b.elevators[e].currentFloor = b.people[id].startFloor

\* C36: whenever a passenger is on board elevator e, its destination floor
\* is in e's floorsToVisit.
DropOffsStayPlanned ==
  \A e \in Lanes :
    \A i \in 1 .. Len(b.elevators[e].people) :
      b.people[b.elevators[e].people[i]].destinationFloor \in b.elevators[e].floorsToVisit

TicksFindAnAlgorithm ==
  [][(ticks' = ticks + 1 /\ DecisionsAsked(b, b') > 0)
       => getCurrentAlgorithm(algorithmManager) # NoAlgorithm]_vars

\* C40: the active algorithm is the algorithm of the registry entry whose id
\* is the current id, also after a registration under the name of the active
\* one; a setCurrentAlgorithm call that returns false changes nothing, and
\* one that returns true names a registered id.
ActiveAlgorithmIsRegistered ==
  [][/\ \E i \in DOMAIN algorithmManager'.algorithms :
          /\ algorithmManager'.algorithms[i].id = algorithmManager'.currentAlgorithmId
          /\ algorithmManager'.algorithms[i].algorithm = getCurrentAlgorithm(algorithmManager')
     /\ algorithmManager'.swaps = algorithmManager.swaps + 1 =>
          IF algorithmManager'.returned
          THEN Find(algorithmManager.algorithms, algorithmManager'.currentAlgorithmId) # {}
          ELSE /\ algorithmManager'.algorithms = algorithmManager.algorithms
               /\ algorithmManager'.currentAlgorithm = algorithmManager.currentAlgorithm
               /\ algorithmManager'.currentAlgorithmId = algorithmManager.currentAlgorithmId]_vars

\* C39: once arrivals have stopped, under a strategy that answers with a
\* floor of floorsToVisit, every passenger on board is unloaded in the end
\* and every elevator ends IDLE with nothing to visit: where every elevator
\* is IDLE with nothing to visit, which no later tick changes, nobody is
\* left on board.
AtRestNobodyAboard ==
  (flowRate = 0 /\ \A e \in Lanes : /\ b.elevators[e].state = "IDLE"
                                     /\ b.elevators[e].floorsToVisit = {})
    => \A e \in Lanes : b.elevators[e].people = << >>

\* C17: a step in which no tick runs leaves the building and the spawn
\* counter as they are; a tick runs only while playing or as the single
\* step, which leaves the simulation paused; and a tick advances the wait
\* time of a passenger who stays queued by one frame, and lets a passenger
\* give up only when that frame takes the wait past the threshold, whatever
\* time was spent paused before it.
PauseFreezesState ==
  [][/\ ticks' = ticks => (b' = b /\ frameCounter' = frameCounter)
     /\ ticks' = ticks + 1 =>
          /\ isPaused => isPaused'
          /\ \A id \in PersonIds(b) :
               (IsWaiting(b, id) /\ IsWaiting(b', id))
               => b'.people[id].waitingTime = b.people[id].waitingTime + FrameMs
          /\ \A id \in PersonIds(b) :
               (~HasGivenUp(b, id) /\ HasGivenUp(b', id))
               => b.people[id].waitingTime + FrameMs > b.people[id].giveUpThreshold]_vars

\* ---- shipped strategies: assignElevatorToPerson ----
\* Simple1: always elevator 0
Simple1Assign(building, startFloor) == 0

\* Simple5: loadFactor * 10 + distance, minus 2 when already moving toward
\* the person, minus 3 when empty; kept integral by scaling with the
\* (uniform) capacity
Simple5Score(elevator, startFloor) ==
  LET distance == Abs(elevator.currentFloor - startFloor)
      directionMatch == \/ (startFloor > elevator.currentFloor /\ elevator.direction = 1)
                        \/ (startFloor < elevator.currentFloor /\ elevator.direction = -1)
  IN elevator.passengers * 10
     + elevator.capacity * (distance - (IF directionMatch THEN 2 ELSE 0)
                                     - (IF elevator.passengers = 0 THEN 3 ELSE 0))

\* the first element of the stable ascending sort by score
Simple5Assign(building, startFloor) ==
  CHOOSE i \in Lanes :
    \A j \in Lanes :
      \/ Simple5Score(building[i], startFloor) < Simple5Score(building[j], startFloor)
      \/ (Simple5Score(building[i], startFloor) = Simple5Score(building[j], startFloor) /\ i <= j)

\* DefaultElevatorAlgorithm: the best-scoring elevator among those neither
\* full nor in repair, the first one on ties, elevator 0 when there is none;
\* score[e] stands for calculateElevatorScore of elevator e
DefaultAssign(building, score) ==
  LET candidates == {i \in Lanes :
                       ~(building[i].passengers >= building[i].capacity \/ building[i].isInRepair)}
  IN IF candidates = {} THEN 0
     ELSE CHOOSE i \in candidates :
            \A j \in candidates : score[i] > score[j] \/ (score[i] = score[j] /\ i <= j)

DefaultScores == [Lanes -> {0, 1}]

IsFullOrInRepair(elevator) ==
  elevator.passengers = elevator.capacity \/ elevator.isInRepair

SomeElevatorUsable(building) == \E e \in Lanes : ~IsFullOrInRepair(building[e])

Simple1AvoidsFullOrRepair ==
  SomeElevatorUsable(getBuildingData(b)) =>
    \A startFloor \in Floors :
      ~IsFullOrInRepair(getBuildingData(b)[Simple1Assign(getBuildingData(b), startFloor)])

Simple5AvoidsFullOrRepair ==
  SomeElevatorUsable(getBuildingData(b)) =>
    \A startFloor \in Floors :
      ~IsFullOrInRepair(getBuildingData(b)[Simple5Assign(getBuildingData(b), startFloor)])

DefaultAvoidsFullOrRepair ==
  SomeElevatorUsable(getBuildingData(b)) =>
    \A score \in DefaultScores :
      ~IsFullOrInRepair(getBuildingData(b)[DefaultAssign(getBuildingData(b), score)])

\* C5: on every snapshot of the building with an elevator that is neither
\* full nor in REPAIR, no shipped strategy (Default, Simple5, Simple1)
\* assigns an elevator that is full or in REPAIR.
StrategiesAvoidFullOrRepair ==
  /\ DefaultAvoidsFullOrRepair
  /\ Simple5AvoidsFullOrRepair
  /\ Simple1AvoidsFullOrRepair

====
